--------------------------- MODULE BuildCacheProofs ---------------------------
(***************************************************************************)
(* Machine-checked proofs about BuildCache, for every number of processes, *)
(* programs, variants, runs and faults.                                    *)
(*                                                                         *)
(* The invariant is built in layers, each proved with the ones below it:   *)
(* the types, the lock that excludes (LockInv), what the files and the     *)
(* processes hold (RightInv), and why a command may fail (ReasonInv).      *)
(***************************************************************************)
EXTENDS BuildCache, TLAPS

Bytes == Contents \cup {None, Torn}

\* What process p may do.
Moves(p) == Step(p) \/ Kill(p) \/ Clean(p) \/ \E k \in Keys : Run(p, k)

\* What no process does: the power fails, a file grows old, the source is
\* rewritten, or an orphan writes.
Outside ==
  \/ PowerLoss \/ Intrude
  \/ \E f \in Entries : Age(f)
  \/ \E o \in orphans : OrphanWrites(o)

\* The types, but for the bytes that a process executes.
Types ==
  /\ src \in [Sources -> Keys \cup {Alien, None}] /\ out \in [Routes -> Contents \cup {None}]
  /\ stale \in BOOLEAN /\ orphans \subseteq Routes \X (Keys \cup {Alien})
  /\ bin \in [Keys -> Bytes] /\ dig \in [Keys -> Bytes]
  /\ stage \in [Procs -> Bytes]
  /\ lockfile = 1 /\ old \subseteq Files
  /\ pc \in [Procs -> Phases] /\ ask \in [Procs -> Keys \cup {None}]
  /\ opened \in [Procs -> {0, 1}] /\ locked \in [Procs -> BOOLEAN]
  /\ want \in [Procs -> Bytes]
  /\ slow \in [Procs -> BOOLEAN] /\ retried \in [Procs -> BOOLEAN]
  /\ wrote \in [Procs -> Keys \cup {Alien, None}]
  /\ victims \in [Procs -> SUBSET Files]
  /\ mem \in [Procs -> Bytes]
  /\ fate \in [Procs -> {"none", "ran", "failed", "killed"}] /\ excuse \in [Procs -> BOOLEAN]
  /\ spoiled \subseteq Native
  /\ runs \in Nat /\ faults \in Nat

\* What a process at each place was asked for.
AskOK ==
  \A p \in Procs :
    /\ pc[p] \in Phases \ {"idle", "open", "lock", "list", "clear"} => ask[p] \in Keys
    /\ pc[p] \in {"open", "lock", "write", "readback", "compile", "verify"} => ask[p] \notin Wasm
    /\ pc[p] \in {"reread", "render"} => ask[p] \in Wasm
    /\ pc[p] \in {"list", "clear"} => ask[p] = None
    /\ pc[p] = "readback" => slow[p]

\* The places that are reached with the lock in hand, and what the lock is.
MustLock(p) ==
  \/ pc[p] \in {"sweep", "evict", "list", "clear", "write", "readback", "compile", "verify"}
  \/ pc[p] \in {"copy", "install", "record"} /\ ask[p] \notin Wasm

LockOK ==
  /\ \A p \in Procs : MustLock(p) => locked[p]
  /\ \A p \in Procs : locked[p] \/ pc[p] = "lock" => opened[p] = 1
  /\ \A p, q \in Procs : locked[p] /\ locked[q] => p = q

LockInv == Types /\ AskOK /\ LockOK

\* The bytes of program k.
Program(k) == {k} \X Variants

\* Whatever whole file is under the name of a program is that program.
BinOK == \A k \in Keys : bin[k] \in Contents => bin[k] \in Program(k) \/ k \in spoiled

\* What a process is about to execute or install is whole; a wasm run has its
\* own program.
HandOK(p) ==
  /\ pc[p] \in {"touch", "exec", "record"} /\ ask[p] \notin Wasm => bin[ask[p]] # Torn
  /\ pc[p] \in {"touch", "sweep", "evict", "copy", "install", "record", "exec"} /\ ask[p] \in Wasm =>
       mem[p] \in Program(ask[p])
  /\ pc[p] = "install" => stage[p] \in Contents \cup {None}

\* What a build that nothing has spoiled has compared, or will compare, is its
\* own program, and so is what it has compiled and staged.
BuildOK(p) ==
  ask[p] \notin spoiled =>
    /\ pc[p] = "readback" => src["main"] = ask[p]
    /\ pc[p] = "readback" \/ (pc[p] = "compile" /\ slow[p]) => src["rest"] = ask[p]
    /\ pc[p] \in {"compile", "verify"} => wrote[p] = ask[p]
    /\ pc[p] = "verify" /\ StillOurs(p) => out[Route(p)] \in Program(ask[p])
    /\ pc[p] = "copy" /\ ask[p] \notin Wasm => out[Route(p)] \in Program(ask[p])
    /\ pc[p] = "install" => stage[p] \in Program(ask[p]) \cup {None}

\* How a command ended is known when it has; what it executed is whole.
FateOK(p) ==
  /\ pc[p] # "idle" => fate[p] = "none"
  /\ fate[p] = "ran" /\ ask[p] # None => mem[p] \in Program(ask[p]) \/ ask[p] \in spoiled
  /\ mem[p] # Torn

RightInv == BinOK /\ \A p \in Procs : HandOK(p) /\ BuildOK(p) /\ FateOK(p)

\* A build that will not find its source again has an excuse; one that is built again
\* has a fresh session.
RebuildOK(p) ==
  /\ pc[p] \in {"compile", "verify"} /\ ~StillOurs(p) => excuse[p]
  /\ pc[p] \in {"write", "readback", "compile"} /\ retried[p] => ~stale
  /\ retried[p] => pc[p] \in {"write", "readback", "compile", "verify", "copy", "install", "record",
                              "exec"}

\* The binary that a process is about to execute is there and out of the
\* sweeps' reach, or it has an excuse.
Safe(p) ==
  /\ bin[ask[p]] # None /\ BinOf(ask[p]) \notin old
  /\ \A q \in Procs : pc[q] = "evict" => BinOf(ask[p]) \notin victims[q]
InReachOK(p) ==
  pc[p] \in {"record", "exec"} /\ ask[p] \notin Wasm => Safe(p) \/ (pc[p] = "exec" /\ excuse[p])

ReasonInv == FailsForAReason /\ \A p \in Procs : RebuildOK(p) /\ InReachOK(p)
-----------------------------------------------------------------------------
(* The types *)

\* The names of the files are apart.
LEMMA FileNames ==
  /\ \A k \in Keys : BinOf(k) \in Files /\ DigOf(k) \in Files
  /\ \A k, j \in Keys : /\ BinOf(k) = BinOf(j) <=> k = j
                        /\ DigOf(k) = DigOf(j) <=> k = j
                        /\ BinOf(k) # DigOf(j)
  /\ \A p \in Procs : StageOf(p) \in Files
  /\ \A p, q \in Procs : StageOf(p) = StageOf(q) <=> p = q
  /\ \A p \in Procs, k \in Keys : StageOf(p) # BinOf(k) /\ StageOf(p) # DigOf(k)
  BY DEF BinOf, DigOf, StageOf, Files, Entries, Stages

\* Removal keeps the types of the directory.
LEMMA RemoveTypes ==
  ASSUME Types, NEW f, Remove(f)
  PROVE  /\ bin' \in [Keys -> Bytes] /\ dig' \in [Keys -> Bytes]
         /\ stage' \in [Procs -> Bytes] /\ old' \subseteq Files
  BY DEF Types, Remove, Bytes

\* So does the end of a command.
LEMMA EndTypes ==
  ASSUME Types, NEW p \in Procs, NEW how \in {"ran", "failed", "killed"}, End(p, how)
  PROVE  /\ pc' \in [Procs -> Phases] /\ opened' \in [Procs -> {0, 1}]
         /\ locked' \in [Procs -> BOOLEAN] /\ want' \in [Procs -> Bytes]
         /\ slow' \in [Procs -> BOOLEAN] /\ retried' \in [Procs -> BOOLEAN]
         /\ wrote' \in [Procs -> Keys \cup {Alien, None}]
         /\ victims' \in [Procs -> SUBSET Files]
         /\ fate' \in [Procs -> {"none", "ran", "failed", "killed"}]
  BY DEF Types, End, Bytes, Phases

\* What is compiled, when it can be, is a program.
LEMMA CompiledType ==
  ASSUME Types, NEW r \in Routes, Compilable(r)
  PROVE  Compiled(r) \in Keys \cup {Alien}
<1>1. \A f \in SourcesOf(r) : src[f] \in Keys \cup {Alien}
  BY DEF Types, Compilable, SourcesOf, Sources
<1> QED
  BY <1>1 DEF Compiled, SourcesOf, Routes

\* A step of a process keeps the types.
LEMMA TypesStep ==
  ASSUME LockInv, NEW p \in Procs, Moves(p)
  PROVE  Types'
<1>0. Types /\ Present \subseteq Files
  BY DEF LockInv, Present
<1>A. AskOK
  BY DEF LockInv
<1> USE <1>0 DEF Types, Phases, disk, work, history, bounds
<1>1. CASE ReadDigest(p)
  BY <1>A, <1>1 DEF ReadDigest, To, Missed, AskOK
<1>2. CASE ReadBinary(p)
  BY <1>2 DEF ReadBinary, Missed, Bytes
<1>3. CASE Reread(p)
  BY <1>A, <1>3 DEF Reread, Bytes, AskOK
<1>4. CASE Touch(p)
  BY <1>4 DEF Touch, To
<1>5. CASE Exec(p)
  BY <1>A, <1>5 DEF Exec, End, AskOK, Bytes
<1>6. CASE Open(p)
  BY <1>6 DEF Open, To
<1>7. CASE Lock(p)
  BY <1>7 DEF Lock, To
<1>8. CASE Sweep(p)
  BY <1>8 DEF Sweep, To, Evictable
<1>9. CASE Evict(p)
  <2>1. PICK f \in victims[p] : Remove(f) /\ victims' = [victims EXCEPT ![p] = @ \ {f}]
    BY <1>9 DEF Evict
  <2> QED
    BY <1>9, <2>1, RemoveTypes DEF Evict
<1>10. CASE EvictEnd(p)
  BY <1>10 DEF EvictEnd, To, AfterSweep
<1>11. CASE ClearScratch(p)
  BY <1>11 DEF ClearScratch, To, KeepLockfile
<1>12. CASE Clear(p)
  <2>1. PICK f \in victims[p] : Remove(f) /\ victims' = [victims EXCEPT ![p] = @ \ {f}]
    BY <1>12 DEF Clear
  <2> QED
    BY <1>12, <2>1, RemoveTypes DEF Clear
<1>13. CASE ClearEnd(p)
  BY <1>13 DEF ClearEnd, End, Bytes
<1>14. CASE Write(p)
  <2>1. src' \in [Sources -> Keys \cup {Alien, None}]
    BY <1>A, <1>14 DEF Write, To, AskOK
  <2>2. wrote' \in [Procs -> Keys \cup {Alien, None}]
    BY <1>A, <1>14 DEF Write, To, AskOK
  <2> QED
    BY <1>14, <2>1, <2>2 DEF Write, To
<1>15. CASE FastFails(p)
  BY <1>15 DEF FastFails, To
<1>16. CASE Ice(p)
  <2>1. CASE retried[p]
    BY <1>16, <2>1, EndTypes DEF Ice
  <2>2. CASE ~retried[p]
    <3>1. /\ pc' = [pc EXCEPT ![p] = "write"] /\ retried' = [retried EXCEPT ![p] = TRUE]
          /\ slow' = [slow EXCEPT ![p] = FALSE] /\ stale' = FALSE
          /\ UNCHANGED <<src, out, bin, dig, stage, lockfile, old, orphans>>
          /\ UNCHANGED <<ask, opened, locked, want, wrote, victims, mem, fate, history, bounds>>
      BY <1>16, <2>2 DEF Ice
    <3> QED
      BY <3>1
  <2> QED
    BY <2>1, <2>2
<1>17. CASE Verify(p)
  BY <1>17, ZenonT(60) DEF Verify, End, Bytes
<1>18. CASE Copy(p)
  <2>1. stage' \in [Procs -> Bytes]
    BY <1>A, <1>18 DEF Copy, To, AskOK, Bytes, Route, Routes
  <2> QED
    BY <1>18, <2>1 DEF Copy, To
<1>19. CASE Install(p)
  <2>1. bin' \in [Keys -> Bytes] /\ stage' \in [Procs -> Bytes]
    BY <1>19 DEF Install, Bytes
  <2> QED
    BY <1>19, <2>1 DEF Install, To
<1>20. CASE InstallFails(p)
  BY <1>20 DEF InstallFails, To
<1>21. CASE Record(p)
  BY <1>A, <1>21 DEF Record, To, AskOK
<1>22. CASE Kill(p)
  <2>1. stage' \in [Procs -> Bytes] /\ stale' \in BOOLEAN
    BY <1>22 DEF Kill, Bytes
  <2>2. orphans' \subseteq Routes \X (Keys \cup {Alien})
    BY <1>22, CompiledType DEF Kill, Route, Routes
  <2> QED
    BY <1>22, <2>1, <2>2, EndTypes DEF Kill, Fault
<1>23. CASE Compile(p)
  <2>1. PICK v \in Variants : out' = [out EXCEPT ![Route(p)] = <<Compiled(Route(p)), v>>]
    BY <1>23 DEF Compile
  <2>2. Compiled(Route(p)) \in Keys \cup {Alien}
    BY <1>23, CompiledType DEF Compile, Route, Routes
  <2>3. out' \in [Routes -> Contents \cup {None}]
    BY <2>1, <2>2 DEF Contents
  <2> QED
    BY <1>23, <2>3 DEF Compile, To
<1>24. CASE Render(p)
  <2>1. (CHOOSE v \in Variants : TRUE) \in Variants /\ ask[p] \in Keys
    BY <1>A, <1>24, CacheAssumption DEF Render, AskOK
  <2>2. mem' \in [Procs -> Bytes]
    BY <1>24, <2>1 DEF Render, Bytes, Contents
  <2> QED
    BY <1>24, <2>2 DEF Render
<1>25. CASE Clean(p) \/ \E k \in Keys : Run(p, k)
  <2>1. /\ pc' \in [Procs -> Phases] /\ ask' \in [Procs -> Keys \cup {None}]
        /\ mem' \in [Procs -> Bytes] /\ runs' \in Nat /\ faults' \in Nat
    BY <1>25 DEF Clean, Run, Begin, To, Fault, Bytes
  <2>2. /\ fate' = [fate EXCEPT ![p] = "none"] /\ excuse' = [excuse EXCEPT ![p] = FALSE]
        /\ UNCHANGED <<disk, opened, locked, want, slow, wrote, retried, victims, spoiled>>
    BY <1>25 DEF Clean, Run, Begin
  <2> QED
    BY <2>1, <2>2
<1>26. CASE ReadBack(p)
  BY <1>26 DEF ReadBack, To, Sources, Routes
<1> QED
  BY <1>1, <1>2, <1>3, <1>4, <1>5, <1>6, <1>7, <1>8, <1>9, <1>10, <1>11, <1>12, <1>13, <1>14,
     <1>15, <1>16, <1>17, <1>18, <1>19, <1>20, <1>21, <1>22, <1>23, <1>24, <1>25, <1>26 DEF Step, Moves
-----------------------------------------------------------------------------
(* The lock *)

\* A process is asked for what its place in the code expects.
LEMMA AskStep ==
  ASSUME LockInv, NEW p \in Procs, Moves(p)
  PROVE  AskOK'
<1>0. Types /\ AskOK
  BY DEF LockInv
<1> USE <1>0, CacheAssumption DEF Types, AskOK, Phases, Keys, work
<1>1. CASE ReadDigest(p)
  BY <1>1 DEF ReadDigest, To, End, Missed
<1>2. CASE ReadBinary(p)
  BY <1>2 DEF ReadBinary, To, End, Missed
<1>3. CASE Reread(p)
  BY <1>3 DEF Reread, To, End
<1>4. CASE Touch(p)
  BY <1>4 DEF Touch, To, End
<1>5. CASE Exec(p)
  BY <1>5 DEF Exec, To, End
<1>6. CASE Open(p)
  BY <1>6 DEF Open, To, End
<1>7. CASE Lock(p)
  BY <1>7 DEF Lock, To, End
<1>8. CASE Sweep(p)
  BY <1>8 DEF Sweep, To, End
<1>9. CASE Evict(p)
  BY <1>9 DEF Evict, To, End
<1>10. CASE EvictEnd(p)
  BY <1>10 DEF EvictEnd, To, End, AfterSweep
<1>11. CASE ClearScratch(p)
  BY <1>11 DEF ClearScratch, To, End
<1>12. CASE Clear(p)
  BY <1>12 DEF Clear, To, End
<1>13. CASE ClearEnd(p)
  BY <1>13 DEF ClearEnd, To, End
<1>14. CASE Write(p)
  BY <1>14 DEF Write, To, End
<1>15. CASE Compile(p)
  BY <1>15 DEF Compile, To, End
<1>16. CASE FastFails(p)
  BY <1>16 DEF FastFails, To, End
<1>17. CASE Ice(p)
  BY <1>17 DEF Ice, To, End
<1>18. CASE Verify(p)
  BY <1>18 DEF Verify, To, End
<1>19. CASE Copy(p)
  BY <1>19 DEF Copy, To, End
<1>20. CASE Install(p)
  BY <1>20 DEF Install, To, End
<1>21. CASE InstallFails(p)
  BY <1>21 DEF InstallFails, To, End
<1>22. CASE Record(p)
  BY <1>22 DEF Record, To, End
<1>23. CASE Render(p)
  BY <1>23 DEF Render, To, End
<1>24. CASE Kill(p)
  BY <1>24 DEF Kill, To, End
<1>25. CASE Clean(p) \/ \E k \in Keys : Run(p, k)
  BY <1>25 DEF Clean, Run, Begin, To
<1>26. CASE ReadBack(p)
  BY <1>26 DEF ReadBack, To
<1> QED
  BY <1>1, <1>2, <1>3, <1>4, <1>5, <1>6, <1>7, <1>8, <1>9, <1>10, <1>11, <1>12, <1>13, <1>14,
     <1>15, <1>16, <1>17, <1>18, <1>19, <1>20, <1>21, <1>22, <1>23, <1>24, <1>25, <1>26 DEF Step, Moves

\* The lock is taken by one process at a time and kept while it is needed.
LEMMA LockStep ==
  ASSUME LockInv, NEW p \in Procs, Moves(p)
  PROVE  LockOK'
<1>0. Types /\ AskOK /\ LockOK
  BY DEF LockInv
<1> USE <1>0, CacheAssumption DEF Types, LockOK, MustLock, disk, work, history
<1>1. CASE ReadDigest(p)
  BY <1>1 DEF ReadDigest, To, End, Missed, AskOK
<1>2. CASE ReadBinary(p)
  BY <1>2 DEF ReadBinary, To, End, Missed
<1>3. CASE Reread(p)
  BY <1>3 DEF Reread, To, End
<1>4. CASE Touch(p)
  BY <1>4 DEF Touch, To, End
<1>5. CASE Exec(p)
  BY <1>5 DEF Exec, To, End
<1>6. CASE Open(p)
  BY <1>6 DEF Open, To, End
<1>7. CASE Lock(p)
  BY <1>7 DEF Lock, To, End, Free
<1>8. CASE Sweep(p)
  BY <1>8 DEF Sweep, To, End
<1>9. CASE Evict(p)
  BY <1>9 DEF Evict, To, End
<1>10. CASE EvictEnd(p)
  BY <1>10 DEF EvictEnd, To, End, AfterSweep
<1>11. CASE ClearScratch(p)
  BY <1>11 DEF ClearScratch, To, End, KeepLockfile
<1>12. CASE Clear(p)
  BY <1>12 DEF Clear, To, End
<1>13. CASE ClearEnd(p)
  BY <1>13 DEF ClearEnd, To, End
<1>14. CASE Write(p)
  BY <1>14 DEF Write, To, End
<1>15. CASE Compile(p)
  BY <1>15 DEF Compile, To, End
<1>16. CASE FastFails(p)
  BY <1>16 DEF FastFails, To, End
<1>17. CASE Ice(p)
  <2>1. CASE retried[p]
    <3>1. /\ pc' = [pc EXCEPT ![p] = "idle"] /\ locked' = [locked EXCEPT ![p] = FALSE]
          /\ opened' = [opened EXCEPT ![p] = 0] /\ ask' = ask
      BY <1>17, <2>1 DEF Ice, End
    <3> QED
      BY <3>1
  <2>2. CASE ~retried[p]
    <3>1. /\ pc[p] = "compile" /\ pc' = [pc EXCEPT ![p] = "write"]
          /\ UNCHANGED <<locked, opened, ask>>
      BY <1>17, <2>2 DEF Ice
    <3> QED
      BY <3>1
  <2> QED
    BY <2>1, <2>2
<1>18. CASE Verify(p)
  <2>1. CASE StillOurs(p)
    <3>1. /\ pc[p] = "verify" /\ pc' = [pc EXCEPT ![p] = "copy"]
          /\ UNCHANGED <<locked, opened, ask>>
      BY <1>18, <2>1 DEF Verify
    <3> QED
      BY <3>1
  <2>2. CASE ~StillOurs(p)
    <3>1. /\ pc' = [pc EXCEPT ![p] = "idle"] /\ locked' = [locked EXCEPT ![p] = FALSE]
          /\ opened' = [opened EXCEPT ![p] = 0] /\ ask' = ask
      BY <1>18, <2>2 DEF Verify, End
    <3> QED
      BY <3>1
  <2> QED
    BY <2>1, <2>2
<1>19. CASE Copy(p)
  BY <1>19 DEF Copy, To, End
<1>20. CASE Install(p)
  BY <1>20 DEF Install, To, End
<1>21. CASE InstallFails(p)
  BY <1>21 DEF InstallFails, To, End
<1>22. CASE Record(p)
  BY <1>22 DEF Record, To, End
<1>23. CASE Render(p)
  <2>1. /\ pc[p] = "render" /\ ask' = ask /\ ask[p] \in Wasm
        /\ \/ /\ Free(lockfile) /\ opened' = [opened EXCEPT ![p] = 1]
              /\ locked' = [locked EXCEPT ![p] = TRUE] /\ pc' = [pc EXCEPT ![p] = "sweep"]
           \/ pc' = [pc EXCEPT ![p] = "copy"] /\ UNCHANGED <<opened, locked>>
    BY <1>23 DEF Render, AskOK
  <2>2. CASE pc' = [pc EXCEPT ![p] = "copy"] /\ UNCHANGED <<opened, locked>>
    BY <2>1, <2>2
  <2>3. CASE pc' = [pc EXCEPT ![p] = "sweep"]
    <3>1. \A q \in Procs : ~locked[q]
      BY <2>1, <2>3 DEF Free
    <3> QED
      BY <2>1, <2>3, <3>1
  <2> QED
    BY <2>1, <2>2, <2>3
<1>24. CASE Kill(p)
  BY <1>24 DEF Kill, To, End
<1>25. CASE Clean(p) \/ \E k \in Keys : Run(p, k)
  BY <1>25 DEF Clean, Run, Begin, To
<1>26. CASE ReadBack(p)
  BY <1>26 DEF ReadBack, To
<1> QED
  BY <1>1, <1>2, <1>3, <1>4, <1>5, <1>6, <1>7, <1>8, <1>9, <1>10, <1>11, <1>12, <1>13, <1>14,
     <1>15, <1>16, <1>17, <1>18, <1>19, <1>20, <1>21, <1>22, <1>23, <1>24, <1>25, <1>26 DEF Step, Moves

\* The steps outside keep it.
LEMMA AroundLock ==
  ASSUME LockInv, Outside
  PROVE  LockInv'
<1>0. Types /\ AskOK /\ LockOK
  BY DEF LockInv
<1>1. CASE PowerLoss
  <2>1. PICK torn \in SUBSET (Present \ old) :
          /\ bin' = [k \in Keys |-> IF BinOf(k) \in torn THEN Torn ELSE bin[k]]
          /\ dig' = [k \in Keys |-> IF DigOf(k) \in torn THEN Torn ELSE dig[k]]
          /\ stage' = [p \in Procs |-> IF StageOf(p) \in torn THEN Torn ELSE stage[p]]
    BY <1>1 DEF PowerLoss
  <2>2. /\ bin' \in [Keys -> Bytes] /\ dig' \in [Keys -> Bytes] /\ stage' \in [Procs -> Bytes]
        /\ stale' \in BOOLEAN
    BY <1>0, <1>1, <2>1 DEF Types, Bytes, PowerLoss
  <2>3. Types'
    BY <1>0, <1>1, <2>2 DEF Types, PowerLoss, Fault, Phases, Bytes, history
  <2>4. AskOK' /\ LockOK'
    BY <1>1 DEF PowerLoss, AskOK, LockOK, MustLock
  <2> QED
    BY <2>3, <2>4 DEF LockInv
<1>2. CASE Intrude
  <2>1. Types'
    <3>1. src' \in [Sources -> Keys \cup {Alien, None}]
      BY <1>0, <1>2 DEF Types, Intrude
    <3>2. spoiled' \subseteq Native
      BY <1>0, <1>2 DEF Types, Intrude, Unseen, AskOK, Phases, Keys
    <3> QED
      BY <1>0, <1>2, <3>1, <3>2 DEF Types, Intrude, Fault, work
  <2> QED
    BY <1>0, <1>2, <2>1 DEF Intrude, LockInv, AskOK, LockOK, MustLock, work
<1>3. CASE \E f \in Entries : Age(f)
  <2>1. Types'
    BY <1>0, <1>3 DEF Types, Age, Files, work, history, bounds
  <2> QED
    BY <1>0, <1>3, <2>1 DEF Age, LockInv, AskOK, LockOK, MustLock, work
<1>4. CASE \E o \in orphans : OrphanWrites(o)
  <2>1. PICK o \in orphans : OrphanWrites(o)
    BY <1>4
  <2>2. o[1] \in Routes /\ o[2] \in Keys \cup {Alien}
    BY <1>0 DEF Types
  <2>3. out' \in [Routes -> Contents \cup {None}]
    BY <1>0, <2>1, <2>2 DEF Types, OrphanWrites, Contents
  <2>4. spoiled' \subseteq Native /\ orphans' \subseteq orphans
    BY <1>0, <2>1 DEF Types, OrphanWrites, Untaken
  <2>5. Types'
    BY <1>0, <2>1, <2>3, <2>4 DEF Types, OrphanWrites, work, bounds
  <2> QED
    BY <1>0, <2>1, <2>5 DEF OrphanWrites, LockInv, AskOK, LockOK, MustLock, work
<1> QED
  BY <1>1, <1>2, <1>3, <1>4 DEF Outside

\* The directory of a run before is sound, and nobody is in it.
LEMMA InitLock == Init => LockInv
<1> SUFFICES ASSUME Init PROVE LockInv
  OBVIOUS
<1>1. bin \in [Keys -> Bytes]
  BY DEF Init, Bytes
<1>2. old \subseteq Files
  BY CacheAssumption DEF Init, Files, Entries
<1>3. Types
  BY <1>1, <1>2 DEF Init, Types, Bytes, Phases
<1> QED
  BY <1>3 DEF Init, LockInv, AskOK, LockOK, MustLock

\* Every step keeps the types and the lock.
LEMMA NextLock == LockInv /\ [Next]_vars => LockInv'
<1> SUFFICES ASSUME LockInv, [Next]_vars PROVE LockInv'
  OBVIOUS
<1>1. CASE UNCHANGED vars
  BY <1>1 DEF LockInv, Types, AskOK, LockOK, MustLock, vars, disk, work, history, bounds
<1>2. CASE \E p \in Procs : Moves(p)
  BY <1>2, TypesStep, AskStep, LockStep DEF LockInv
<1>3. CASE Outside
  BY <1>3, AroundLock
<1> QED
  BY <1>1, <1>2, <1>3 DEF Next, Moves, Outside
-----------------------------------------------------------------------------
(* What is in the files and in the processes' hands *)

\* What a step of process p leaves alone of another process.
LEMMA OthersKept ==
  ASSUME Types, NEW p \in Procs, NEW q \in Procs, q # p,
         Moves(p)
  PROVE  /\ pc'[q] = pc[q] /\ ask'[q] = ask[q] /\ locked'[q] = locked[q]
         /\ slow'[q] = slow[q] /\ wrote'[q] = wrote[q]
         /\ retried'[q] = retried[q] /\ mem'[q] = mem[q] /\ fate'[q] = fate[q]
         /\ excuse'[q] = excuse[q] \/ (excuse'[q] /\ Clear(p))
         /\ stage'[q] \in {stage[q], None}
<1> USE DEF Types, disk, work, history
<1>1. CASE ReadDigest(p)
  BY <1>1 DEF ReadDigest
<1>2. CASE ReadBinary(p)
  BY <1>2 DEF ReadBinary
<1>3. CASE Reread(p)
  BY <1>3 DEF Reread
<1>4. CASE Touch(p)
  BY <1>4 DEF Touch, To
<1>5. CASE Exec(p)
  BY <1>5 DEF Exec, End
<1>6. CASE Open(p)
  BY <1>6 DEF Open, To
<1>7. CASE Lock(p)
  BY <1>7 DEF Lock, To
<1>8. CASE Sweep(p)
  BY <1>8 DEF Sweep, To
<1>9. CASE Evict(p)
  BY <1>9 DEF Evict, Remove
<1>10. CASE EvictEnd(p)
  BY <1>10 DEF EvictEnd, To
<1>11. CASE ClearScratch(p)
  BY <1>11 DEF ClearScratch, To
<1>12. CASE Clear(p)
  BY <1>12 DEF Clear, Remove
<1>13. CASE ClearEnd(p)
  BY <1>13 DEF ClearEnd, End
<1>14. CASE Write(p)
  BY <1>14 DEF Write, To
<1>15. CASE Compile(p)
  BY <1>15 DEF Compile, To
<1>16. CASE FastFails(p)
  BY <1>16 DEF FastFails, To
<1>17. CASE Ice(p)
  BY <1>17 DEF Ice, End
<1>18. CASE Verify(p)
  BY <1>18 DEF Verify, End
<1>19. CASE Copy(p)
  BY <1>19 DEF Copy, To
<1>20. CASE Install(p)
  BY <1>20 DEF Install, To
<1>21. CASE InstallFails(p)
  BY <1>21 DEF InstallFails, To
<1>22. CASE Record(p)
  BY <1>22 DEF Record, To
<1>23. CASE Render(p)
  BY <1>23 DEF Render
<1>24. CASE Kill(p)
  BY <1>24 DEF Kill, End
<1>25. CASE Clean(p) \/ \E k \in Keys : Run(p, k)
  BY <1>25 DEF Clean, Run, Begin, To
<1>26. CASE ReadBack(p)
  BY <1>26 DEF ReadBack, To
<1> QED
  BY <1>1, <1>2, <1>3, <1>4, <1>5, <1>6, <1>7, <1>8, <1>9, <1>10, <1>11, <1>12, <1>13, <1>14,
     <1>15, <1>16, <1>17, <1>18, <1>19, <1>20, <1>21, <1>22, <1>23, <1>24, <1>25, <1>26 DEF Step, Moves

\* What a step of process p does to the binaries, the source and what was built.
LEMMA FilesChange ==
  ASSUME LockInv, NEW p \in Procs, Moves(p)
  PROVE  /\ \/ UNCHANGED bin
            \/ pc[p] \in {"evict", "clear"} /\ \A k \in Keys : bin'[k] \in {bin[k], None}
            \/ /\ pc[p] = "install" /\ stage[p] # None /\ ask[p] \in Keys
               /\ bin' = [bin EXCEPT ![ask[p]] = stage[p]]
         /\ UNCHANGED <<src, out>> \/ MustLock(p)
         /\ UNCHANGED spoiled
<1>0. Types /\ AskOK
  BY DEF LockInv
<1> USE <1>0 DEF Types, disk, work, history, MustLock
<1>1. CASE ReadDigest(p)
  BY <1>1 DEF ReadDigest
<1>2. CASE ReadBinary(p)
  BY <1>2 DEF ReadBinary
<1>3. CASE Reread(p)
  BY <1>3 DEF Reread
<1>4. CASE Touch(p)
  BY <1>4 DEF Touch, To
<1>5. CASE Exec(p)
  BY <1>5 DEF Exec, End
<1>6. CASE Open(p)
  BY <1>6 DEF Open, To
<1>7. CASE Lock(p)
  BY <1>7 DEF Lock, To
<1>8. CASE Sweep(p)
  BY <1>8 DEF Sweep, To
<1>9. CASE Evict(p)
  BY <1>9 DEF Evict, Remove
<1>10. CASE EvictEnd(p)
  BY <1>10 DEF EvictEnd, To
<1>11. CASE ClearScratch(p)
  BY <1>11 DEF ClearScratch, To
<1>12. CASE Clear(p)
  BY <1>12 DEF Clear, Remove
<1>13. CASE ClearEnd(p)
  BY <1>13 DEF ClearEnd, End
<1>14. CASE Write(p)
  BY <1>14 DEF Write, To
<1>15. CASE Compile(p)
  BY <1>15 DEF Compile, To
<1>16. CASE FastFails(p)
  BY <1>16 DEF FastFails, To
<1>17. CASE Ice(p)
  BY <1>17 DEF Ice, End
<1>18. CASE Verify(p)
  BY <1>18 DEF Verify, End
<1>19. CASE Copy(p)
  BY <1>19 DEF Copy, To
<1>20. CASE Install(p)
  BY <1>20 DEF Install, To, AskOK
<1>21. CASE InstallFails(p)
  BY <1>21 DEF InstallFails, To
<1>22. CASE Record(p)
  BY <1>22 DEF Record, To
<1>23. CASE Render(p)
  BY <1>23 DEF Render
<1>24. CASE Kill(p)
  BY <1>24 DEF Kill, End
<1>25. CASE Clean(p) \/ \E k \in Keys : Run(p, k)
  BY <1>25 DEF Clean, Run, Begin, To
<1>26. CASE ReadBack(p)
  BY <1>26 DEF ReadBack, To
<1> QED
  BY <1>1, <1>2, <1>3, <1>4, <1>5, <1>6, <1>7, <1>8, <1>9, <1>10, <1>11, <1>12, <1>13, <1>14,
     <1>15, <1>16, <1>17, <1>18, <1>19, <1>20, <1>21, <1>22, <1>23, <1>24, <1>25, <1>26 DEF Step, Moves

\* What process p itself has in hand after its step.
LEMMA OwnHand ==
  ASSUME LockInv, RightInv, NEW p \in Procs,
         Moves(p)
  PROVE  HandOK(p)' /\ FateOK(p)'
<1>0. Types /\ AskOK /\ BinOK /\ HandOK(p) /\ FateOK(p)
  BY DEF LockInv, RightInv
<1>A. /\ Torn \notin Contents /\ Torn # None /\ None \notin Keys /\ Wasm \subseteq Keys
      /\ spoiled \cap Wasm = {} /\ \A k \in Keys : Program(k) \subseteq Contents
  BY <1>0, CacheAssumption DEF Keys, Types, Program, Contents
<1> USE <1>0, <1>A DEF Types, AskOK, HandOK, FateOK, Phases, disk, work, history
<1>1. CASE ReadDigest(p)
  BY <1>1 DEF ReadDigest, Missed
<1>2. CASE ReadBinary(p)
  BY <1>2 DEF ReadBinary, Missed, Matches
<1>3. CASE Reread(p)
  BY <1>3 DEF Reread, BinOK
<1>4. CASE Touch(p)
  BY <1>4 DEF Touch, To
<1>5. CASE Exec(p)
  BY <1>5 DEF Exec, End, BinOK, Bytes
<1>6. CASE Open(p)
  BY <1>6 DEF Open, To
<1>7. CASE Lock(p)
  BY <1>7 DEF Lock, To
<1>8. CASE Sweep(p)
  BY <1>8 DEF Sweep, To
<1>9. CASE Evict(p)
  BY <1>9 DEF Evict, Remove
<1>10. CASE EvictEnd(p)
  BY <1>10 DEF EvictEnd, To, AfterSweep
<1>11. CASE ClearScratch(p)
  BY <1>11 DEF ClearScratch, To
<1>12. CASE Clear(p)
  BY <1>12 DEF Clear, Remove
<1>13. CASE ClearEnd(p)
  BY <1>13 DEF ClearEnd, End
<1>14. CASE Write(p)
  BY <1>14 DEF Write, To
<1>15. CASE Compile(p)
  BY <1>15 DEF Compile, To
<1>16. CASE FastFails(p)
  BY <1>16 DEF FastFails, To
<1>17. CASE Ice(p)
  BY <1>17 DEF Ice, End
<1>18. CASE Verify(p)
  BY <1>18 DEF Verify, End, StillOurs
<1>19. CASE Copy(p)
  <2>1. out[Route(p)] \in Contents \cup {None} /\ (ask[p] \in Wasm => mem[p] \in Contents)
    BY <1>19 DEF Copy, To, Route, Routes
  <2> QED
    BY <1>19, <2>1 DEF Copy, To
<1>20. CASE Install(p)
  <2>1. stage[p] \in Contents /\ ask[p] \in Keys
    BY <1>20 DEF Install, To
  <2> QED
    BY <1>20, <2>1 DEF Install, To
<1>21. CASE InstallFails(p)
  BY <1>21 DEF InstallFails, To
<1>22. CASE Record(p)
  BY <1>22 DEF Record, To
<1>23. CASE Render(p)
  <2>1. (CHOOSE v \in Variants : TRUE) \in Variants
    BY CacheAssumption
  <2>2. mem'[p] \in Program(ask[p]) /\ mem'[p] # Torn
    BY <1>23, <2>1, CacheAssumption DEF Render, Program, Contents
  <2> QED
    BY <1>23, <2>2 DEF Render
<1>24. CASE Kill(p)
  BY <1>24 DEF Kill, End
<1>25. CASE Clean(p) \/ \E k \in Keys : Run(p, k)
  BY <1>25 DEF Clean, Run, Begin, To
<1>26. CASE ReadBack(p)
  BY <1>26 DEF ReadBack, To
<1> QED
  BY <1>1, <1>2, <1>3, <1>4, <1>5, <1>6, <1>7, <1>8, <1>9, <1>10, <1>11, <1>12, <1>13, <1>14,
     <1>15, <1>16, <1>17, <1>18, <1>19, <1>20, <1>21, <1>22, <1>23, <1>24, <1>25, <1>26 DEF Step, Moves

\* What its build has after it.
LEMMA OwnBuild ==
  ASSUME LockInv, RightInv, NEW p \in Procs,
         Moves(p)
  PROVE  BuildOK(p)'
<1>0. Types /\ AskOK /\ HandOK(p) /\ BuildOK(p) /\ spoiled' = spoiled
  BY FilesChange DEF LockInv, RightInv
<1> USE <1>0 DEF Types, BuildOK, disk, work, history
<1>1. CASE Write(p)
  <2>1. \A f \in SourcesOf(Route(p)) : src'[f] = ask[p]
    BY <1>1 DEF Write, SourcesOf, Sources
  <2>2. slow[p] => pc'[p] = "readback" /\ src'["main"] = ask[p] /\ src'["rest"] = ask[p]
    BY <1>1, <2>1 DEF Write, To, SourcesOf, Route
  <2>3. ~slow[p] => pc'[p] = "compile" /\ wrote'[p] = ask[p]
    BY <1>1 DEF Write, To
  <2>4. slow' = slow /\ ask' = ask
    BY <1>1 DEF Write
  <2> QED
    BY <2>2, <2>3, <2>4
<1>2. CASE ReadBack(p)
  <2>1. /\ pc[p] = "readback" /\ pc'[p] = "compile" /\ wrote'[p] = src["main"]
        /\ UNCHANGED <<src, slow, ask>>
    BY <1>2 DEF ReadBack, To
  <2> QED
    BY <2>1
<1>3. CASE Compile(p)
  <2>1. PICK v \in Variants : out' = [out EXCEPT ![Route(p)] = <<Compiled(Route(p)), v>>]
    BY <1>3 DEF Compile
  <2>2. /\ pc[p] = "compile" /\ pc'[p] = "verify"
        /\ UNCHANGED <<src, slow, ask, wrote>>
    BY <1>3 DEF Compile, To
  <2>3. ASSUME ask[p] \notin spoiled, StillOurs(p)
        PROVE  Compiled(Route(p)) = ask[p]
    BY <2>2, <2>3 DEF StillOurs, Compiled, Route
  <2>4. out'[Route(p)] = <<Compiled(Route(p)), v>>
    BY <2>1 DEF Route, Routes
  <2>5. Route(p)' = Route(p) /\ (StillOurs(p)' <=> StillOurs(p))
    BY <2>2 DEF Route, StillOurs
  <2>6. ask[p] \notin spoiled /\ StillOurs(p)' => out'[Route(p)'] \in Program(ask[p])
    <3>1. ask[p] \notin spoiled /\ StillOurs(p) => out'[Route(p)] \in Program(ask[p])
      BY <2>3, <2>4 DEF Program
    <3> QED
      BY <2>5, <3>1
  <2> QED
    BY <2>2, <2>6
<1>4. CASE Verify(p)
  <2>1. CASE StillOurs(p)
    <3>1. /\ pc[p] = "verify" /\ pc'[p] = "copy" /\ UNCHANGED <<out, slow, ask>>
      BY <1>4, <2>1 DEF Verify
    <3> QED
      BY <2>1, <3>1 DEF Route
  <2>2. CASE ~StillOurs(p)
    BY <1>4, <2>2 DEF Verify, End
  <2> QED
    BY <2>1, <2>2
<1>5. CASE Copy(p)
  <2>1. /\ pc[p] = "copy" /\ pc'[p] = "install" /\ UNCHANGED ask
        /\ stage'[p] = IF ask[p] \in Wasm THEN mem[p] ELSE out[Route(p)]
    BY <1>5 DEF Copy, To
  <2> QED
    BY <2>1 DEF HandOK
<1>6. CASE Moves(p) /\ ~(Write(p) \/ ReadBack(p) \/ Compile(p) \/ Verify(p) \/ Copy(p))
  <2>1. /\ pc'[p] \notin {"readback", "compile", "verify", "install"}
        /\ pc'[p] = "copy" => ask'[p] \in Wasm
    <3>1. CASE ReadDigest(p)
      BY <3>1 DEF ReadDigest, Missed
    <3>2. CASE ReadBinary(p)
      BY <3>2 DEF ReadBinary, Missed
    <3>3. CASE Reread(p)
      BY <3>3 DEF Reread
    <3>4. CASE Touch(p)
      BY <3>4 DEF Touch, To
    <3>5. CASE Exec(p)
      BY <3>5 DEF Exec, End
    <3>6. CASE Open(p)
      BY <3>6 DEF Open, To
    <3>7. CASE Lock(p)
      BY <3>7 DEF Lock, To
    <3>8. CASE Sweep(p)
      BY <3>8 DEF Sweep, To
    <3>9. CASE Evict(p)
      BY <3>9 DEF Evict
    <3>10. CASE EvictEnd(p)
      BY <3>10 DEF EvictEnd, To, AfterSweep
    <3>11. CASE ClearScratch(p)
      BY <3>11 DEF ClearScratch, To
    <3>12. CASE Clear(p)
      BY <3>12 DEF Clear
    <3>13. CASE ClearEnd(p)
      BY <3>13 DEF ClearEnd, End
    <3>14. CASE FastFails(p)
      BY <3>14 DEF FastFails, To
    <3>15. CASE Ice(p)
      BY <3>15 DEF Ice, End
    <3>16. CASE Install(p)
      BY <3>16 DEF Install, To
    <3>17. CASE InstallFails(p)
      BY <3>17 DEF InstallFails, To
    <3>18. CASE Record(p)
      BY <3>18 DEF Record, To
    <3>19. CASE Render(p)
      <4>1. ask'[p] \in Wasm /\ pc'[p] \in {"sweep", "copy"}
        BY <3>19 DEF Render, AskOK
      <4> QED
        BY <4>1
    <3>20. CASE Kill(p)
      BY <3>20 DEF Kill, End
    <3>21. CASE Clean(p) \/ \E k \in Keys : Run(p, k)
      BY <3>21 DEF Clean, Run, Begin, To
    <3> QED
      BY <1>6, <3>1, <3>2, <3>3, <3>4, <3>5, <3>6, <3>7, <3>8, <3>9, <3>10, <3>11, <3>12,
         <3>13, <3>14, <3>15, <3>16, <3>17, <3>18, <3>19, <3>20, <3>21 DEF Step, Moves
  <2> QED
    BY <2>1
<1> QED
  BY <1>1, <1>2, <1>3, <1>4, <1>5, <1>6

\* What another process has in hand after it.
LEMMA OthersHand ==
  ASSUME LockInv, RightInv, NEW p \in Procs, NEW q \in Procs, q # p,
         Moves(p)
  PROVE  HandOK(q)' /\ BuildOK(q)' /\ FateOK(q)'
<1>1. /\ pc'[q] = pc[q] /\ ask'[q] = ask[q] /\ mem'[q] = mem[q] /\ fate'[q] = fate[q]
      /\ stage'[q] \in {stage[q], None}
      /\ slow'[q] = slow[q] /\ wrote'[q] = wrote[q]
  BY OthersKept DEF LockInv
<1>2. HandOK(p) /\ HandOK(q) /\ BuildOK(q) /\ FateOK(q)
  BY DEF RightInv
<1>3. \A k \in Keys : bin[k] # Torn => bin'[k] # Torn
  <2>1. pc[p] = "install" /\ stage[p] # None => stage[p] # Torn
    BY <1>2, CacheAssumption DEF HandOK
  <2> QED
    BY <2>1, FilesChange, CacheAssumption DEF LockInv, Types
<1>4. (MustLock(q) => UNCHANGED <<src, out>>) /\ spoiled' = spoiled
  BY FilesChange DEF LockInv, LockOK
<1>5. pc[q] \in {"touch", "exec", "record"} => ask[q] \in Keys
  BY DEF LockInv, AskOK, Phases
<1>6. HandOK(q)' /\ FateOK(q)'
  BY <1>1, <1>2, <1>3, <1>4, <1>5 DEF HandOK, FateOK
<1>7. BuildOK(q)'
  <2>1. CASE MustLock(q)
    BY <1>1, <1>2, <1>4, <2>1 DEF BuildOK, StillOurs, Route
  <2>2. CASE ~MustLock(q)
    BY <1>1, <1>2, <1>4, <2>2 DEF BuildOK, MustLock
  <2> QED
    BY <2>1, <2>2
<1> QED
  BY <1>6, <1>7

\* What is under a program's name stays that program.
LEMMA BinStep ==
  ASSUME LockInv, RightInv, NEW p \in Procs,
         Moves(p)
  PROVE  BinOK'
<1>1. BinOK /\ BuildOK(p)
  BY DEF RightInv
<1>2. pc[p] = "install" /\ stage[p] # None => stage[p] \in Program(ask[p]) \/ ask[p] \in spoiled
  BY <1>1 DEF BuildOK
<1> QED
  BY <1>1, <1>2, FilesChange, CacheAssumption DEF BinOK, LockInv, Types

\* The steps outside keep it.
LEMMA AroundRight ==
  ASSUME LockInv, RightInv, Outside
  PROVE  RightInv'
<1>0. Types /\ AskOK /\ BinOK /\ \A p \in Procs : HandOK(p) /\ BuildOK(p) /\ FateOK(p)
  BY DEF LockInv, RightInv
<1>1. CASE PowerLoss
  <2>1. \A k \in Keys : bin'[k] \in {bin[k], Torn}
    BY <1>1 DEF PowerLoss
  <2>2. /\ \A p \in Procs : pc'[p] = "idle" /\ fate'[p] \in {fate[p], "killed"}
        /\ UNCHANGED <<ask, mem, spoiled>>
    BY <1>1 DEF PowerLoss, history
  <2>3. BinOK'
    BY <1>0, <2>1, <2>2, CacheAssumption DEF BinOK
  <2>4. \A p \in Procs : HandOK(p)' /\ BuildOK(p)' /\ FateOK(p)'
    BY <1>0, <2>2 DEF HandOK, BuildOK, FateOK
  <2> QED
    BY <2>3, <2>4 DEF RightInv
<1>2. CASE Intrude
  <2>1. PICK f \in Sources : /\ src' = [src EXCEPT ![f] = Alien]
                             /\ spoiled' = spoiled \cup {ask[p] : p \in Unseen(f)}
    BY <1>2 DEF Intrude
  <2>2. UNCHANGED <<out, bin, stage, pc, ask, slow, wrote, mem, fate>> /\ spoiled \subseteq spoiled'
    BY <1>2, <2>1 DEF Intrude, work
  <2>3. BinOK' /\ \A p \in Procs : HandOK(p)' /\ FateOK(p)'
    BY <1>0, <2>2 DEF BinOK, HandOK, FateOK
  <2>4. ASSUME NEW p \in Procs
        PROVE  BuildOK(p)'
    <3> SUFFICES ASSUME ask[p] \notin spoiled'
                 PROVE  BuildOK(p)'
      BY <2>2 DEF BuildOK
    <3>1. ask[p] \notin spoiled /\ p \notin Unseen(f)
      BY <2>1, <2>2
    <3>2. pc[p] = "readback" => slow[p]
      BY <1>0 DEF AskOK
    <3>3. pc[p] = "readback" \/ (pc[p] = "compile" /\ slow[p]) => src'["rest"] = src["rest"]
      BY <1>0, <2>1, <3>1, <3>2 DEF Unseen, SourcesOf, Types
    <3>4. pc[p] = "readback" => src'["main"] = src["main"]
      BY <1>0, <2>1, <3>1, <3>2 DEF Unseen, SourcesOf, Types
    <3>5. pc[p] = "verify" => ask[p] \in Keys
      BY <1>0 DEF AskOK, Phases
    <3>6. pc[p] = "verify" /\ wrote[p] = ask[p] /\ StillOurs(p)' => StillOurs(p)
      BY <1>0, <2>1, <2>2, <3>5, CacheAssumption DEF StillOurs, Types, Sources
    <3> QED
      BY <1>0, <2>2, <3>1, <3>3, <3>4, <3>6 DEF BuildOK, Route
  <2> QED
    BY <2>3, <2>4 DEF RightInv
<1>3. CASE \E f \in Entries : Age(f)
  <2>1. UNCHANGED <<src, out, bin, stage, pc, ask, slow, wrote, mem, fate, spoiled>>
    BY <1>3 DEF Age, work, history
  <2> QED
    BY <1>0, <2>1 DEF RightInv, BinOK, HandOK, BuildOK, StillOurs, Route, FateOK
<1>4. CASE \E o \in orphans : OrphanWrites(o)
  <2>1. PICK o \in orphans : OrphanWrites(o)
    BY <1>4
  <2>2. PICK v \in Variants : out' = [out EXCEPT ![o[1]] = <<o[2], v>>]
    BY <2>1 DEF OrphanWrites
  <2>3. /\ spoiled' = spoiled \cup ({ask[p] : p \in Untaken(o[1])} \ {o[2]})
        /\ UNCHANGED <<src, bin, stage, pc, ask, slow, wrote, mem, fate>>
    BY <2>1 DEF OrphanWrites, work
  <2>4. BinOK' /\ \A p \in Procs : HandOK(p)' /\ FateOK(p)'
    BY <1>0, <2>3 DEF BinOK, HandOK, FateOK
  <2>5. ASSUME NEW p \in Procs
        PROVE  BuildOK(p)'
    <3> SUFFICES ASSUME ask[p] \notin spoiled'
                 PROVE  BuildOK(p)'
      BY <2>3 DEF BuildOK
    <3>1. ask[p] \notin spoiled /\ (p \in Untaken(o[1]) => ask[p] = o[2])
      BY <2>3
    <3>2. pc[p] \in {"verify", "copy"} => ask[p] \in Keys
      BY <1>0 DEF AskOK, Phases
    <3>3. pc[p] = "verify" => ask[p] \notin Wasm
      BY <1>0 DEF AskOK
    <3>4. ASSUME pc[p] \in {"verify", "copy"}, ask[p] \notin Wasm
          PROVE  out'[Route(p)] = out[Route(p)] \/ out'[Route(p)] \in Program(ask[p])
      <4>1. CASE Route(p) = o[1]
        <5>1. out'[Route(p)] = <<o[2], v>>
          BY <1>0, <2>2, <4>1 DEF Types, Route, Routes
        <5>2. ask[p] = o[2]
          BY <3>1, <3>2, <3>4, <4>1 DEF Untaken, Keys
        <5> QED
          BY <5>1, <5>2 DEF Program
      <4>2. CASE Route(p) # o[1]
        BY <1>0, <2>2, <4>2 DEF Types, Route, Routes
      <4> QED
        BY <4>1, <4>2
    <3>5. Route(p)' = Route(p) /\ (StillOurs(p)' <=> StillOurs(p))
      BY <2>3 DEF Route, StillOurs
    <3> QED
      BY <1>0, <2>3, <3>1, <3>3, <3>4, <3>5 DEF BuildOK
  <2> QED
    BY <2>4, <2>5 DEF RightInv
<1> QED
  BY <1>1, <1>2, <1>3, <1>4 DEF Outside

\* Warm programs are themselves.
LEMMA InitRight == Init => RightInv
<1> SUFFICES ASSUME Init PROVE RightInv
  OBVIOUS
<1>1. BinOK
  BY CacheAssumption DEF Init, BinOK, Program
<1>2. \A p \in Procs : HandOK(p) /\ BuildOK(p) /\ FateOK(p)
  BY CacheAssumption DEF Init, HandOK, BuildOK, FateOK
<1> QED
  BY <1>1, <1>2 DEF RightInv

\* Every step keeps it so.
LEMMA NextRight == LockInv /\ RightInv /\ [Next]_vars => RightInv'
<1> SUFFICES ASSUME LockInv, RightInv, [Next]_vars PROVE RightInv'
  OBVIOUS
<1>1. CASE UNCHANGED vars
  BY <1>1 DEF RightInv, BinOK, HandOK, BuildOK, StillOurs, Route, FateOK, vars, disk, work, history
<1>2. CASE \E p \in Procs : Moves(p)
  <2>1. PICK p \in Procs : Moves(p)
    BY <1>2
  <2>2. \A q \in Procs : HandOK(q)' /\ BuildOK(q)' /\ FateOK(q)'
    BY <2>1, OwnHand, OwnBuild, OthersHand
  <2> QED
    BY <2>1, <2>2, BinStep DEF RightInv
<1>3. CASE Outside
  BY <1>3, AroundRight
<1> QED
  BY <1>1, <1>2, <1>3 DEF Next, Moves, Outside
-----------------------------------------------------------------------------
(* Why a command may fail *)

\* What a step of process p does to the ages, the victims and the session.
LEMMA SweepChange ==
  ASSUME LockInv, NEW p \in Procs, Moves(p)
  PROVE  /\ old' \subseteq old
         /\ pc'[p] = "evict" =>
              victims'[p] \subseteq old \cup (IF pc[p] = "evict" THEN victims[p] ELSE {})
         /\ pc'[p] = "evict" => MustLock(p)
         /\ \A q \in Procs \ {p} : victims'[q] = victims[q]
         /\ pc[p] = "evict" => \A k \in Keys : bin'[k] = bin[k] \/ BinOf(k) \in victims[p]
         /\ pc[p] = "clear" => UNCHANGED bin \/ \A q \in Procs \ {p} : Active(q) => excuse'[q]
         /\ stale' => stale \/ pc[p] = "compile"
<1>0. Types
  BY DEF LockInv
<1> USE <1>0 DEF Types, disk, work, history, MustLock
<1>1. CASE ReadDigest(p)
  BY <1>1 DEF ReadDigest, Missed
<1>2. CASE ReadBinary(p)
  BY <1>2 DEF ReadBinary, Missed
<1>3. CASE Reread(p)
  BY <1>3 DEF Reread
<1>4. CASE Touch(p)
  BY <1>4 DEF Touch, To
<1>5. CASE Exec(p)
  BY <1>5 DEF Exec, End
<1>6. CASE Open(p)
  BY <1>6 DEF Open, To
<1>7. CASE Lock(p)
  BY <1>7 DEF Lock, To
<1>8. CASE Sweep(p)
  BY <1>8 DEF Sweep, To, Evictable
<1>9. CASE Evict(p)
  BY <1>9 DEF Evict, Remove
<1>10. CASE EvictEnd(p)
  BY <1>10 DEF EvictEnd, To, AfterSweep
<1>11. CASE ClearScratch(p)
  BY <1>11 DEF ClearScratch, To
<1>12. CASE Clear(p)
  BY <1>12 DEF Clear, Remove
<1>13. CASE ClearEnd(p)
  BY <1>13 DEF ClearEnd, End
<1>14. CASE Write(p)
  BY <1>14 DEF Write, To
<1>15. CASE Compile(p)
  BY <1>15 DEF Compile, To
<1>16. CASE FastFails(p)
  BY <1>16 DEF FastFails, To
<1>17. CASE Ice(p)
  BY <1>17 DEF Ice, End
<1>18. CASE Verify(p)
  BY <1>18 DEF Verify, End
<1>19. CASE Copy(p)
  BY <1>19 DEF Copy, To
<1>20. CASE Install(p)
  BY <1>20 DEF Install, To
<1>21. CASE InstallFails(p)
  BY <1>21 DEF InstallFails, To
<1>22. CASE Record(p)
  BY <1>22 DEF Record, To
<1>23. CASE Render(p)
  BY <1>23 DEF Render
<1>24. CASE Kill(p)
  BY <1>24 DEF Kill, End
<1>25. CASE Clean(p) \/ \E k \in Keys : Run(p, k)
  BY <1>25 DEF Clean, Run, Begin, To
<1>26. CASE ReadBack(p)
  BY <1>26 DEF ReadBack, To
<1> QED
  BY <1>1, <1>2, <1>3, <1>4, <1>5, <1>6, <1>7, <1>8, <1>9, <1>10, <1>11, <1>12, <1>13, <1>14,
     <1>15, <1>16, <1>17, <1>18, <1>19, <1>20, <1>21, <1>22, <1>23, <1>24, <1>25, <1>26 DEF Step, Moves

\* The reasons process p itself has after its step.
LEMMA OwnRebuild ==
  ASSUME LockInv, RightInv, ReasonInv, NEW p \in Procs,
         Moves(p)
  PROVE  RebuildOK(p)'
<1>0. Types /\ AskOK /\ RebuildOK(p)
  BY DEF LockInv, ReasonInv
<1> USE <1>0 DEF Types, RebuildOK, disk, work, history
<1>1. CASE ReadDigest(p)
  BY <1>1 DEF ReadDigest, Missed
<1>2. CASE ReadBinary(p)
  BY <1>2 DEF ReadBinary, Missed
<1>3. CASE Reread(p)
  BY <1>3 DEF Reread
<1>4. CASE Touch(p)
  BY <1>4 DEF Touch, To
<1>5. CASE Exec(p)
  BY <1>5 DEF Exec, End
<1>6. CASE Open(p)
  BY <1>6 DEF Open, To
<1>7. CASE Lock(p)
  BY <1>7 DEF Lock, To
<1>8. CASE Sweep(p)
  BY <1>8 DEF Sweep, To
<1>9. CASE Evict(p)
  BY <1>9 DEF Evict, Remove
<1>10. CASE EvictEnd(p)
  BY <1>10 DEF EvictEnd, To, AfterSweep
<1>11. CASE ClearScratch(p)
  BY <1>11 DEF ClearScratch, To
<1>12. CASE Clear(p)
  BY <1>12 DEF Clear, Remove
<1>13. CASE ClearEnd(p)
  BY <1>13 DEF ClearEnd, End
<1>14. CASE Write(p)
  <2>1. ~slow[p] => src'["gen"] = ask[p] /\ wrote'[p] = ask[p]
    BY <1>14 DEF Write, Route, SourcesOf, Sources
  <2> QED
    BY <1>14, <2>1 DEF Write, To, StillOurs
<1>15. CASE Compile(p)
  BY <1>15 DEF Compile, To, StillOurs
<1>16. CASE FastFails(p)
  BY <1>16 DEF FastFails, To
<1>17. CASE Ice(p)
  BY <1>17 DEF Ice, End
<1>18. CASE Verify(p)
  BY <1>18 DEF Verify, End
<1>19. CASE Copy(p)
  BY <1>19 DEF Copy, To
<1>20. CASE Install(p)
  BY <1>20 DEF Install, To
<1>21. CASE InstallFails(p)
  BY <1>21 DEF InstallFails, To
<1>22. CASE Record(p)
  BY <1>22 DEF Record, To
<1>23. CASE Render(p)
  BY <1>23 DEF Render
<1>24. CASE Kill(p)
  BY <1>24 DEF Kill, End
<1>25. CASE Clean(p) \/ \E k \in Keys : Run(p, k)
  BY <1>25 DEF Clean, Run, Begin, To
<1>26. CASE ReadBack(p)
  BY <1>26 DEF ReadBack, To, StillOurs, AskOK
<1> QED
  BY <1>1, <1>2, <1>3, <1>4, <1>5, <1>6, <1>7, <1>8, <1>9, <1>10, <1>11, <1>12, <1>13, <1>14,
     <1>15, <1>16, <1>17, <1>18, <1>19, <1>20, <1>21, <1>22, <1>23, <1>24, <1>25, <1>26 DEF Step, Moves

\* The binary that process p is about to execute after its step.
LEMMA OwnReach ==
  ASSUME LockInv, RightInv, ReasonInv, NEW p \in Procs,
         Moves(p)
  PROVE  InReachOK(p)'
<1>0. Types /\ AskOK /\ LockOK /\ InReachOK(p)
  BY DEF LockInv, ReasonInv
<1>1. CASE pc'[p] \notin {"record", "exec"} \/ ask'[p] \in Wasm
  BY <1>1 DEF InReachOK
<1>2. CASE pc'[p] = "exec" /\ ask'[p] \notin Wasm /\ Touch(p)
  <2>1. ask[p] \in Keys /\ UNCHANGED <<bin, ask, victims>>
    BY <1>0, <1>2 DEF Touch, To, AskOK, Phases
  <2>2. /\ old' = old \ {BinOf(ask[p]), DigOf(ask[p])}
        /\ pc' = [pc EXCEPT ![p] = "exec"]
        /\ excuse'[p] <=> (excuse[p] \/ bin[ask[p]] = None \/ \E q \in Procs : BinOf(ask[p]) \in victims[q])
    BY <1>0, <1>2 DEF Touch, To, Types
  <2> QED
    BY <1>0, <2>1, <2>2 DEF InReachOK, Safe, BinOf, Types
<1>3. CASE pc'[p] = "exec" /\ ask'[p] \notin Wasm /\ Record(p)
  <2>1. /\ ask[p] \in Keys /\ pc[p] = "record" /\ UNCHANGED <<bin, ask, victims>> /\ old' \subseteq old
        /\ \A q \in Procs : pc'[q] = "evict" => pc[q] = "evict"
    BY <1>0, <1>3 DEF Record, To, AskOK, Phases, Types
  <2> QED
    BY <1>0, <1>3, <2>1 DEF InReachOK, Safe, BinOf
<1>4. CASE pc'[p] = "record" /\ ask'[p] \notin Wasm /\ Install(p)
  <2>1. /\ ask[p] \in Keys /\ pc[p] = "install" /\ UNCHANGED <<ask, victims>>
        /\ bin'[ask[p]] = stage[p] /\ stage[p] # None
        /\ old' = old \ {BinOf(ask[p]), StageOf(p)}
        /\ pc' = [pc EXCEPT ![p] = "record"]
    BY <1>0, <1>4 DEF Install, To, AskOK, Phases, Types, work
  <2>2. \A q \in Procs : pc'[q] # "evict"
    BY <1>0, <1>4, <2>1 DEF LockOK, MustLock, Types
  <2> QED
    BY <1>0, <2>1, <2>2 DEF InReachOK, Safe, BinOf
<1>5. ASSUME pc'[p] \in {"record", "exec"}, ask'[p] \notin Wasm
      PROVE  \/ pc'[p] = "exec" /\ (Touch(p) \/ Record(p))
             \/ pc'[p] = "record" /\ Install(p)
  <2> USE <1>0, <1>5 DEF Types
<2>1. CASE ReadDigest(p)
  BY <2>1 DEF ReadDigest, Missed
<2>2. CASE ReadBinary(p)
  BY <2>2 DEF ReadBinary, Missed
<2>3. CASE Reread(p)
  BY <2>3 DEF Reread
<2>4. CASE Touch(p)
  BY <2>4 DEF Touch, To
<2>5. CASE Exec(p)
  BY <2>5 DEF Exec, End
<2>6. CASE Open(p)
  BY <2>6 DEF Open, To
<2>7. CASE Lock(p)
  BY <2>7 DEF Lock, To
<2>8. CASE Sweep(p)
  BY <2>8 DEF Sweep, To
<2>9. CASE Evict(p)
  BY <2>9 DEF Evict, Remove
<2>10. CASE EvictEnd(p)
  BY <2>10 DEF EvictEnd, To, AfterSweep
<2>11. CASE ClearScratch(p)
  BY <2>11 DEF ClearScratch, To
<2>12. CASE Clear(p)
  BY <2>12 DEF Clear, Remove
<2>13. CASE ClearEnd(p)
  BY <2>13 DEF ClearEnd, End
<2>14. CASE Write(p)
  BY <2>14 DEF Write, To
<2>15. CASE Compile(p)
  BY <2>15 DEF Compile, To
<2>16. CASE FastFails(p)
  BY <2>16 DEF FastFails, To
<2>17. CASE Ice(p)
  BY <2>17 DEF Ice, End
<2>18. CASE Verify(p)
  BY <2>18 DEF Verify, End
<2>19. CASE Copy(p)
  BY <2>19 DEF Copy, To
<2>20. CASE Install(p)
  BY <2>20 DEF Install, To
<2>21. CASE InstallFails(p)
  BY <2>21 DEF InstallFails, To
<2>22. CASE Record(p)
  BY <2>22 DEF Record, To
<2>23. CASE Render(p)
  BY <2>23 DEF Render
<2>24. CASE Kill(p)
  BY <2>24 DEF Kill, End
<2>25. CASE Clean(p) \/ \E k \in Keys : Run(p, k)
  BY <2>25 DEF Clean, Run, Begin, To
<2>26. CASE ReadBack(p)
  BY <2>26 DEF ReadBack, To
<2> QED
  BY <2>1, <2>2, <2>3, <2>4, <2>5, <2>6, <2>7, <2>8, <2>9, <2>10, <2>11, <2>12, <2>13, <2>14,
     <2>15, <2>16, <2>17, <2>18, <2>19, <2>20, <2>21, <2>22, <2>23, <2>24, <2>25, <2>26 DEF Step, Moves
<1> QED
  BY <1>1, <1>2, <1>3, <1>4, <1>5

\* The reasons of another process after it.
LEMMA OthersReason ==
  ASSUME LockInv, RightInv, ReasonInv, NEW p \in Procs, NEW q \in Procs, q # p,
         Moves(p)
  PROVE  RebuildOK(q)' /\ InReachOK(q)'
<1>0. Types /\ AskOK /\ LockOK /\ RebuildOK(q) /\ InReachOK(q)
  BY DEF LockInv, ReasonInv
<1>1. /\ pc'[q] = pc[q] /\ ask'[q] = ask[q] /\ retried'[q] = retried[q]
      /\ slow'[q] = slow[q] /\ wrote'[q] = wrote[q]
      /\ excuse[q] => excuse'[q]
  BY <1>0, OthersKept
<1>2. MustLock(q) => ~MustLock(p)
  BY <1>0 DEF LockOK
<1>3. RebuildOK(q)'
  <2>1. MustLock(q) => UNCHANGED <<src, out>> /\ (stale' => stale)
    BY <1>2, FilesChange, SweepChange DEF MustLock
  <2> QED
    BY <1>0, <1>1, <2>1 DEF RebuildOK, StillOurs, MustLock
<1>4. ASSUME pc[q] \in {"record", "exec"}, ask[q] \notin Wasm, Safe(q)
      PROVE  Safe(q)' \/ (pc[q] = "exec" /\ excuse'[q])
  <2>1. ask[q] \in Keys /\ pc[q] # "idle" /\ (pc[q] = "record" => MustLock(q))
    BY <1>0, <1>4 DEF AskOK, Phases, MustLock
  <2>2. ASSUME NEW r \in Procs, pc'[r] = "evict"
        PROVE  BinOf(ask[q]) \notin victims'[r]
    <3>1. CASE r = p
      BY <1>4, <2>2, <3>1, SweepChange DEF Safe
    <3>2. CASE r # p
      BY <1>0, <1>4, <2>2, <3>2, SweepChange, OthersKept DEF Safe
    <3> QED
      BY <3>1, <3>2
  <2>3. bin'[ask[q]] # None \/ (pc[q] = "exec" /\ excuse'[q])
    <3>1. CASE UNCHANGED bin
      BY <1>4, <3>1 DEF Safe
    <3>2. CASE pc[p] = "evict"
      BY <1>4, <2>1, <3>2, SweepChange DEF Safe
    <3>3. CASE pc[p] = "clear" /\ bin' # bin
      BY <1>2, <1>4, <2>1, <3>3, SweepChange DEF MustLock, Active
    <3>4. CASE pc[p] = "install" /\ stage[p] # None /\ bin' = [bin EXCEPT ![ask[p]] = stage[p]]
      BY <1>0, <1>4, <2>1, <3>4 DEF Safe, Types
    <3> QED
      BY <3>1, <3>2, <3>3, <3>4, FilesChange
  <2>4. BinOf(ask[q]) \notin old'
    BY <1>4, SweepChange DEF Safe
  <2> QED
    BY <1>1, <2>2, <2>3, <2>4 DEF Safe, BinOf
<1> QED
  BY <1>0, <1>1, <1>3, <1>4 DEF InReachOK

\* A command that fails in this step has a reason.
LEMMA FailStep ==
  ASSUME LockInv, RightInv, ReasonInv, NEW p \in Procs,
         Moves(p)
  PROVE  FailsForAReason'
<1>0. /\ Types /\ AskOK /\ HandOK(p) /\ FateOK(p) /\ RebuildOK(p) /\ InReachOK(p)
      /\ FailsForAReason
  BY DEF LockInv, RightInv, ReasonInv
<1>1. \A q \in Procs \ {p} : fate'[q] = "failed" => excuse'[q]
  BY <1>0, OthersKept DEF FailsForAReason
<1>2. fate'[p] = "failed" => excuse'[p]
  <2>1. CASE Exec(p)
    <3>1. ASSUME ask[p] \in Wasm
          PROVE  mem[p] # None
      <4>1. mem[p] \in Program(ask[p]) /\ ask[p] \in Keys
        BY <1>0, <2>1, <3>1 DEF Exec, HandOK, AskOK, Phases
      <4> QED
        BY <4>1, CacheAssumption DEF Program, Contents
    <3>2. ASSUME ask[p] \notin Wasm, bin[ask[p]] = None
          PROVE  excuse[p]
      BY <1>0, <2>1, <3>2 DEF Exec, InReachOK, Safe
    <3> QED
      BY <1>0, <2>1, <3>1, <3>2 DEF Exec, End, Types, history
  <2>2. CASE Ice(p)
    BY <1>0, <2>2 DEF Ice, RebuildOK, FateOK
  <2>3. CASE Verify(p)
    BY <1>0, <2>3 DEF Verify, End, Types, RebuildOK, FateOK, history
  <2>4. CASE ClearEnd(p) \/ Kill(p)
    BY <1>0, <2>4 DEF ClearEnd, Kill, End, Types
  <2>5. CASE Clean(p) \/ \E k \in Keys : Run(p, k)
    BY <1>0, <2>5 DEF Clean, Run, Begin, Types
  <2>6. CASE \/ ReadDigest(p) \/ ReadBinary(p) \/ Reread(p) \/ Touch(p) \/ Open(p) \/ Lock(p)
             \/ Sweep(p) \/ Evict(p) \/ EvictEnd(p) \/ ClearScratch(p) \/ Clear(p)
             \/ Write(p) \/ ReadBack(p) \/ Compile(p) \/ FastFails(p)
             \/ Copy(p) \/ Install(p) \/ InstallFails(p) \/ Record(p) \/ Render(p)
    <3>1. UNCHANGED fate /\ pc[p] # "idle"
      BY <2>6 DEF ReadDigest, ReadBinary, Reread, Touch, Open, Lock, Sweep, Evict, EvictEnd,
         ClearScratch, Clear, Write, ReadBack, Compile, FastFails, Copy, Install, InstallFails, Record,
         Render, To
    <3> QED
      BY <1>0, <3>1 DEF FateOK
  <2> QED
    BY <2>1, <2>2, <2>3, <2>4, <2>5, <2>6 DEF Step, Moves
<1> QED
  BY <1>1, <1>2 DEF FailsForAReason

\* The steps outside keep it.
LEMMA AroundReason ==
  ASSUME LockInv, RightInv, ReasonInv, Outside
  PROVE  ReasonInv'
<1>0. Types /\ AskOK /\ FailsForAReason /\ \A p \in Procs : RebuildOK(p) /\ InReachOK(p)
  BY DEF LockInv, ReasonInv
<1>1. CASE PowerLoss
  <2>1. /\ \A p \in Procs : pc'[p] = "idle" /\ ~retried'[p] /\ fate'[p] \in {fate[p], "killed"}
        /\ UNCHANGED excuse
    BY <1>1 DEF PowerLoss, history
  <2> QED
    BY <1>0, <2>1 DEF ReasonInv, FailsForAReason, RebuildOK, InReachOK
<1>2. CASE Intrude
  <2>1. /\ UNCHANGED <<stale, bin, old, pc, ask, retried, victims, fate>>
        /\ \A p \in Procs : excuse'[p] = (excuse[p] \/ Building(p))
    BY <1>2 DEF Intrude, work
  <2>2. \A p \in Procs : excuse[p] => excuse'[p]
    BY <2>1
  <2>3. \A p \in Procs : pc[p] \in {"compile", "verify"} => excuse'[p]
    BY <2>1 DEF Building
  <2>4. FailsForAReason'
    BY <1>0, <2>1, <2>2 DEF FailsForAReason
  <2>5. \A p \in Procs : RebuildOK(p)'
    BY <1>0, <2>1, <2>3 DEF RebuildOK
  <2>6. \A p \in Procs : InReachOK(p)'
    BY <1>0, <2>1, <2>2 DEF InReachOK, Safe, BinOf
  <2> QED
    BY <2>4, <2>5, <2>6 DEF ReasonInv
<1>3. CASE \E f \in Entries : Age(f)
  <2>1. PICK f \in Entries : Age(f)
    BY <1>3
  <2>2. /\ UNCHANGED <<src, stale, bin, pc, ask, slow, wrote, retried, victims, fate, excuse>>
        /\ old' = old \cup {f}
        /\ \A p \in Procs : pc[p] \in {"record", "exec"} => f # BinOf(ask[p])
    BY <2>1 DEF Age, work, history, InHand
  <2>3. FailsForAReason' /\ \A p \in Procs : RebuildOK(p)'
    BY <1>0, <2>2 DEF FailsForAReason, RebuildOK, StillOurs
  <2>4. \A p \in Procs : InReachOK(p)'
    BY <1>0, <2>2 DEF InReachOK, Safe, BinOf
  <2> QED
    BY <2>3, <2>4 DEF ReasonInv
<1>4. CASE \E o \in orphans : OrphanWrites(o)
  <2>1. UNCHANGED <<src, stale, bin, old, pc, ask, slow, wrote, retried, victims, fate, excuse>>
    BY <1>4 DEF OrphanWrites, work
  <2> QED
    BY <1>0, <2>1 DEF ReasonInv, FailsForAReason, RebuildOK, StillOurs, InReachOK, Safe, BinOf
<1> QED
  BY <1>1, <1>2, <1>3, <1>4 DEF Outside

\* Nobody has failed at the start.
LEMMA InitReason == Init => ReasonInv
  BY DEF Init, ReasonInv, FailsForAReason, RebuildOK, InReachOK

\* Every step keeps it so.
LEMMA NextReason == LockInv /\ RightInv /\ ReasonInv /\ [Next]_vars => ReasonInv'
<1> SUFFICES ASSUME LockInv, RightInv, ReasonInv, [Next]_vars PROVE ReasonInv'
  OBVIOUS
<1>1. CASE UNCHANGED vars
  BY <1>1 DEF ReasonInv, FailsForAReason, RebuildOK, StillOurs, InReachOK, Safe, BinOf, vars, disk, work, history
<1>2. CASE \E p \in Procs : Moves(p)
  <2>1. PICK p \in Procs : Moves(p)
    BY <1>2
  <2>2. \A q \in Procs : RebuildOK(q)' /\ InReachOK(q)'
    BY <2>1, OwnRebuild, OwnReach, OthersReason
  <2> QED
    BY <2>1, <2>2, FailStep DEF ReasonInv
<1>3. CASE Outside
  BY <1>3, AroundReason
<1> QED
  BY <1>1, <1>2, <1>3 DEF Next, Moves, Outside
-----------------------------------------------------------------------------
(* Theorems *)

\* The invariant, with its layers.
THEOREM BuildInvariant == Spec => [](LockInv /\ RightInv /\ ReasonInv)
<1>1. Init => LockInv /\ RightInv /\ ReasonInv
  BY InitLock, InitRight, InitReason
<1>2. (LockInv /\ RightInv /\ ReasonInv) /\ [Next]_vars => (LockInv /\ RightInv /\ ReasonInv)'
  BY NextLock, NextRight, NextReason
<1> QED
  BY <1>1, <1>2, PTL DEF Spec

\* The directory's lock excludes: at most one process is inside a sweep, a
\* `clean` or the build of a native program, whoever is killed under it.
THEOREM LockExcludes == Spec => [](\A p, q \in Procs : MustLock(p) /\ MustLock(q) => p = q)
<1>1. LockInv => \A p, q \in Procs : MustLock(p) /\ MustLock(q) => p = q
  BY DEF LockInv, LockOK
<1> QED
  BY <1>1, BuildInvariant, PTL

\* A cached file whose bytes hash to its digest is the program its name says,
\* unless a build of that program was spoiled where source_still_ours does not
\* look; a wasm run's file without exception.
THEOREM IntactFilesAreRight == Spec => []IntactIsRight
<1>1. LockInv /\ RightInv => IntactIsRight
  <2> SUFFICES ASSUME LockInv, RightInv PROVE IntactIsRight
    OBVIOUS
  <2>1. mem \in [Procs -> Contents \cup {None}]
    BY DEF LockInv, RightInv, Types, FateOK, Bytes
  <2>2. TypeOK
    BY <2>1 DEF LockInv, Types, TypeOK, Bytes
  <2>3. \A k \in Keys : bin[k] \in Contents => bin[k][1] = k \/ k \in spoiled
    BY DEF RightInv, BinOK, Program
  <2> QED
    BY <2>2, <2>3 DEF IntactIsRight
<1> QED
  BY <1>1, BuildInvariant, PTL

\* A command executes the program it was asked for, whatever happened to the
\* name between the check and the exec, with the same exception.
THEOREM CommandsRunTheirProgram == Spec => []RightProgram
<1>1. RightInv => RightProgram
  BY DEF RightInv, RightProgram, FateOK, Program
<1> QED
  BY <1>1, BuildInvariant, PTL

\* A command fails only when others interfered while it ran.
THEOREM FailuresHaveAReason == Spec => []FailsForAReason
<1>1. ReasonInv => FailsForAReason
  BY DEF ReasonInv
<1> QED
  BY <1>1, BuildInvariant, PTL
=============================================================================
