-------------------------- MODULE PackageCacheProofs --------------------------
(***************************************************************************)
(* Machine-checked proofs about PackageCache, for every number of threads, *)
(* processes, commits, resolutions, moves and faults.                      *)
(*                                                                         *)
(* The invariant says of each thread what its place in the code entails    *)
(* (ThreadOK), of the locks that they exclude (LocksOK), and of the        *)
(* history that it covers what a process was told (HeadsOK).               *)
(***************************************************************************)
EXTENDS PackageCache, TLAPS

Hash == Commits \cup {None}
Job == [pc : Pcs, mode : Modes, pin : Hash, want : Hash, how : {"locked", "head", "fallback"},
        ent : Entries, fd : {0, 1}, held : BOOLEAN, got : Hash,
        res : {"none", "ok", "err", "killed"}]

\* Every variable has its type, and no lock file is replaced.
Types ==
  /\ head \in Commits
  /\ at \in [Entries -> Hash]
  /\ ino = [e \in Entries |-> 1]
  /\ lastHead \in Hash /\ lockFile \in Hash
  /\ memo \in [Procs -> Answers \cup {None}]
  /\ th \in [Threads -> Job]
  /\ seen \in [Procs -> SUBSET Commits] /\ older \subseteq Entries

\* The places of fetch_dep_at_commit, of its locked part, and of its caller.
AtCommit == {"look", "lookref", "populate", "open", "lock", "recheck", "shallow", "full", "rename"}
Locked == {"recheck", "shallow", "full", "rename", "aside"}
InHand == {"trunc", "note", "use"}

\* What the place of a resolution says of its fields.
PlaceOK(w) ==
  /\ w.pc # "idle" => w.res = "none"
  /\ w.pc \in {"ask", "fallback"} /\ w.mode = "build" => w.pin = None
  /\ w.pc = "fallback" => w.mode = "build"
  /\ w.pc = "atref" => w.mode = "offline" /\ w.pin = None
  /\ w.pc \in {"read", "ask", "atref"} => w.how = "locked"
  /\ w.pc \in {"drop", "put", "aside"} => w.mode = "update"
  /\ w.pc \in (AtCommit \ {"open", "lock"}) \cup InHand => w.mode # "update"
  /\ w.pc = "save" => w.mode = "build"
  /\ w.pc \in {"open", "lock", "aside"} /\ w.mode = "update" => w.ent = RefDir
  /\ w.held <=> w.pc \in Locked
  /\ w.pc \in Locked \cup {"lock"} => w.fd = 1

\* What fetch_dep_at_commit is after: the pin, or else what the remote said.
WantOK(w, told) ==
  /\ w.pc \in AtCommit /\ w.mode # "update" =>
       /\ w.want \in Commits
       /\ w.pin # None => w.pin = w.want /\ w.how = "locked"
       /\ w.pin = None => w.want \in told /\ w.how = "head"
  /\ w.pc \in AtCommit \ {"look", "lookref"} /\ w.mode # "update" => w.ent = w.want
  /\ w.pc = "rename" => w.got = w.want

\* What is in the directory that a resolution has in hand, now (a) and when
\* its commit has been read.
HandOK(w, a, told, o) ==
  /\ w.pc \in InHand /\ w.pin # None =>
       \/ w.ent = w.pin /\ a[w.pin] = w.pin
       \/ w.ent = RefDir /\ (a[RefDir] \in {None, w.pin} \/ RefDir \in o)
  /\ w.pc \in InHand /\ w.pin = None /\ w.mode = "build" /\ w.how # "fallback" =>
       \/ w.ent \in Commits /\ a[w.ent] = w.ent /\ w.ent \in told
       \/ w.ent = RefDir /\ a[RefDir] \in {None} \cup told
  /\ (w.pc = "save" \/ (w.res = "ok" /\ w.mode # "update")) /\ w.pin # None =>
       \/ w.got = w.pin
       \/ w.ent = RefDir /\ (w.got = None \/ RefDir \in o)
  /\ w.pc = "save" /\ w.pin = None => w.got \in told

\* A caller that is cloning found nothing there.
CloneOK(w, a, o) == w.pc \in {"shallow", "full", "rename"} => a[w.ent] = None \/ w.ent \in o

JobOK(w, a, told, o) == PlaceOK(w) /\ WantOK(w, told) /\ HandOK(w, a, told, o) /\ CloneOK(w, a, o)

ThreadOK(t) == JobOK(th[t], at, seen[ProcOf(t)], older)

\* An entry's lock excludes.
LocksOK ==
  \A t, u \in Threads :
    t # u /\ th[t].pc \in Locked /\ th[u].pc \in Locked => th[t].ent # th[u].ent

\* The head is among the heads a running process has seen, and so is what it
\* was told.
HeadsOK ==
  /\ \A P \in Procs : seen[P] # {} => head \in seen[P]
  /\ \A P \in Procs : memo[P] \in {None, "unreachable", "missing"} \cup seen[P]
  /\ \A t \in Threads : th[t].pc # "idle" => seen[ProcOf(t)] # {}

EntriesOK == \A c \in Commits : at[c] \in {None, c}

PackageInv ==
  Types /\ EntriesOK /\ LocksOK /\ HeadsOK /\ \A t \in Threads : ThreadOK(t)
-----------------------------------------------------------------------------
(* Lemmas *)

\* A thread belongs to one process.
LEMMA ProcIs ==
  /\ \A t \in Threads : ProcOf(t) \in Procs /\ t \in ProcOf(t)
  /\ \A P \in Procs : \A t \in P : t \in Threads /\ ProcOf(t) = P
  BY PackageAssumption DEF ProcOf, Procs, Threads

\* A resolution that ended in an error, or was killed, is a blank record.
LEMMA EndedBad ==
  ASSUME NEW w \in Job, NEW res \in {"err", "killed"}, NEW a, NEW told, NEW o
  PROVE  Ended(w, res) \in Job /\ JobOK(Ended(w, res), a, told, o) /\ Ended(w, res).pc = "idle"
<1>1. Ended(w, res) = [Fresh("build") EXCEPT !.pc = "idle", !.res = res]
  BY DEF Ended
<1>2. Ended(w, res) \in Job
  BY <1>1, ZenonT(60) DEF Fresh, Job, Pcs, Modes, Hash, Entries
<1>3. /\ Ended(w, res).pc = "idle" /\ Ended(w, res).res = res /\ ~Ended(w, res).held
  BY <1>1 DEF Fresh
<1> QED
  BY <1>2, <1>3
  DEF JobOK, PlaceOK, WantOK, HandOK, CloneOK, AtCommit, Locked, InHand

\* A resolution that ended well keeps its pin, its entry and its commit.
LEMMA EndedWell ==
  ASSUME NEW w \in Job, NEW a, NEW told, NEW o,
         w.mode # "update" /\ w.pin # None =>
           w.got = w.pin \/ (w.ent = RefDir /\ (w.got = None \/ RefDir \in o))
  PROVE  Ended(w, "ok") \in Job /\ JobOK(Ended(w, "ok"), a, told, o) /\ Ended(w, "ok").pc = "idle"
<1> DEFINE r == Ended(w, "ok")
<1>1. r = [w EXCEPT !.want = None, !.how = "locked", !.fd = 0, !.held = FALSE,
                    !.pc = "idle", !.res = "ok"]
  BY DEF Ended, Job
<1>2. r \in Job
  BY <1>1 DEF Job, Pcs, Hash
<1>3. /\ r.pc = "idle" /\ r.res = "ok" /\ ~r.held
      /\ r.mode = w.mode /\ r.pin = w.pin /\ r.got = w.got /\ r.ent = w.ent
  BY <1>1 DEF Job
<1> HIDE DEF r
<1> QED
  BY <1>2, <1>3
  DEF JobOK, PlaceOK, WantOK, HandOK, CloneOK, AtCommit, Locked, InHand, r

\* A resolution is handed the directory of an entry: what it may rely on.
LEMMA HandedOK ==
  ASSUME NEW w \in Job, NEW e \in Entries, NEW a, NEW told, at \in [Entries -> Hash],
         w.res = "none", w.mode # "update",
         w.pin # None =>
           /\ w.how = "locked"
           /\ (e = w.pin /\ a[w.pin] = w.pin) \/ (e = RefDir /\ a[RefDir] = w.pin),
         w.pin = None /\ w.mode = "build" /\ w.how # "fallback" =>
           \/ e \in Commits /\ a[e] = e /\ e \in told
           \/ e = RefDir /\ a[RefDir] \in told
  PROVE  Handed(w, e) \in Job /\ JobOK(Handed(w, e), a, told, older) /\ Handed(w, e).pc \in InHand
<1> DEFINE r == Handed(w, e)
<1>1. r = [w EXCEPT !.pc = IF w.how = "head" THEN "trunc" ELSE "use",
                    !.ent = e, !.got = at[e], !.fd = 0, !.held = FALSE]
  BY DEF Handed
<1>2. r \in Job
  BY <1>1, ZenonT(60) DEF Job, Pcs
<1>3. /\ r.pc \in InHand /\ r.res = "none" /\ ~r.held /\ r.mode = w.mode
      /\ r.pin = w.pin /\ r.how = w.how /\ r.ent = e
  BY <1>1 DEF Job, InHand
<1> HIDE DEF r
<1>4. PlaceOK(r) /\ WantOK(r, told) /\ CloneOK(r, a, older)
  BY <1>2, <1>3 DEF PlaceOK, WantOK, CloneOK, AtCommit, Locked, InHand
<1>5. HandOK(r, a, told, older)
  BY <1>2, <1>3 DEF HandOK, InHand
<1> QED
  BY <1>2, <1>3, <1>4, <1>5 DEF JobOK, r

\* What a thread is at is not disturbed by what others do to the entries.
LEMMA OthersKept ==
  ASSUME NEW w \in Job, NEW a \in [Entries -> Hash], NEW b \in [Entries -> Hash],
         NEW told, NEW more, NEW o \in SUBSET Entries, NEW p \in SUBSET Entries,
         NEW h,
         JobOK(w, a, told, o), told \subseteq more, o \subseteq p,
         \A c \in Commits : a[c] = c => b[c] = c,
         b[RefDir] \in {a[RefDir], None} \/ (RefDir \in p /\ b[RefDir] = h /\ h \in more),
         w.pc \in {"shallow", "full", "rename"} =>
            b[w.ent] \in {a[w.ent], None} \/ w.ent \in p
  PROVE  JobOK(w, b, more, p)
<1>1. PlaceOK(w) /\ WantOK(w, more)
  BY DEF JobOK, WantOK
<1>2. CloneOK(w, b, p)
  BY DEF JobOK, CloneOK, Job
<1>3. HandOK(w, b, more, p)
  <2>1. ASSUME w.pc \in InHand, w.pin # None
        PROVE  \/ w.ent = w.pin /\ b[w.pin] = w.pin
               \/ w.ent = RefDir /\ (b[RefDir] \in {None, w.pin} \/ RefDir \in p)
    BY <2>1 DEF JobOK, HandOK, Job, Hash
  <2>2. ASSUME w.pc \in InHand, w.pin = None, w.mode = "build", w.how # "fallback"
        PROVE  \/ w.ent \in Commits /\ b[w.ent] = w.ent /\ w.ent \in more
               \/ w.ent = RefDir /\ b[RefDir] \in {None} \cup more
    BY <2>2 DEF JobOK, HandOK, Job, Hash
  <2>3. ASSUME w.pc = "save" \/ (w.res = "ok" /\ w.mode # "update"), w.pin # None
        PROVE  w.got = w.pin \/ (w.ent = RefDir /\ (w.got = None \/ RefDir \in p))
    BY <2>3 DEF JobOK, HandOK
  <2>4. w.pc = "save" /\ w.pin = None => w.got \in more
    BY DEF JobOK, HandOK
  <2> QED
    BY <2>1, <2>2, <2>3, <2>4 DEF HandOK
<1> QED
  BY <1>1, <1>2, <1>3 DEF JobOK

\* A step of thread t from its record to r keeps the invariant, if r fits the
\* entries as the step leaves them and the step keeps to what it may write.
LEMMA ThreadMoves ==
  ASSUME PackageInv, NEW t \in Threads, NEW r \in Job,
         th[t].pc # "idle", th' = [th EXCEPT ![t] = r],
         UNCHANGED <<ino, seen, older, head>>,
         at' \in [Entries -> Hash], lastHead' \in Hash, lockFile' \in Hash,
         memo' \in [Procs -> Answers \cup {None}],
         \A P \in Procs : memo'[P] \in {None, "unreachable", "missing"} \cup seen[P],
         \A e \in Entries :
           \/ at'[e] = at[e]
           \/ e = RefDir /\ at'[e] = None
           \/ e \in Commits /\ at[e] = None /\ at'[e] = e /\ th[t].pc \in Locked /\ th[t].ent = e,
         JobOK(r, at', seen[ProcOf(t)], older),
         r.pc \in Locked =>
           \/ th[t].pc \in Locked /\ r.ent = th[t].ent
           \/ \A u \in Threads \ {t} : th[u].pc \in Locked => th[u].ent # r.ent
  PROVE  PackageInv'
<1>1. /\ th \in [Threads -> Job] /\ at \in [Entries -> Hash]
      /\ older \subseteq Entries /\ seen \in [Procs -> SUBSET Commits]
  BY DEF PackageInv, Types
<1>2. th'[t] = r /\ \A u \in Threads \ {t} : th'[u] = th[u]
  BY <1>1
<1>3. Types'
  <2>1. th' \in [Threads -> Job]
    BY <1>1
  <2> QED
    BY <2>1 DEF PackageInv, Types
<1>4. EntriesOK'
  BY DEF PackageInv, EntriesOK, Entries
<1>5. LocksOK'
  <2> SUFFICES ASSUME NEW u \in Threads, NEW v \in Threads, u # v,
                      th'[u].pc \in Locked, th'[v].pc \in Locked
               PROVE  th'[u].ent # th'[v].ent
    BY DEF LocksOK
  <2>0. LocksOK
    BY DEF PackageInv
  <2>1. CASE u = t
    <3>1. th'[v] = th[v] /\ th'[u] = r
      BY <2>1, <1>2
    <3> QED
      BY <3>1, <2>1, <2>0 DEF LocksOK
  <2>2. CASE v = t
    <3>1. th'[u] = th[u] /\ th'[v] = r
      BY <2>2, <1>2
    <3> QED
      BY <3>1, <2>2, <2>0 DEF LocksOK
  <2>3. CASE u # t /\ v # t
    <3>1. th'[u] = th[u] /\ th'[v] = th[v]
      BY <2>3, <1>2
    <3> QED
      BY <3>1, <2>0 DEF LocksOK
  <2> QED
    BY <2>1, <2>2, <2>3
<1>6. HeadsOK'
  <2>1. \A u \in Threads : th'[u].pc # "idle" => th[u].pc # "idle"
    BY <1>2
  <2> QED
    BY <2>1 DEF PackageInv, HeadsOK
<1>7. ASSUME NEW u \in Threads
      PROVE  ThreadOK(u)'
  <2>1. CASE u = t
    BY <2>1, <1>2 DEF ThreadOK, ProcOf
  <2>2. CASE u # t
    <3>1. JobOK(th[u], at, seen[ProcOf(u)], older) /\ th'[u] = th[u]
      BY <2>2, <1>2 DEF PackageInv, ThreadOK
    <3>2. \A c \in Commits : at[c] = c => at'[c] = c
      <4> SUFFICES ASSUME NEW c \in Commits, at[c] = c PROVE at'[c] = c
        OBVIOUS
      <4>1. c \in Entries /\ c # RefDir /\ c # None
        BY PackageAssumption DEF Entries
      <4> QED
        BY <4>1
    <3>3. at'[RefDir] \in {at[RefDir], None}
      <4>1. RefDir \in Entries /\ RefDir \notin Commits
        BY PackageAssumption DEF Entries
      <4> QED
        BY <4>1
    <3>4. ASSUME th[u].pc \in {"shallow", "full", "rename"}
          PROVE  at'[th[u].ent] \in {at[th[u].ent], None}
      <4>1. th[u].ent \in Entries
        BY <1>1 DEF Job
      <4>2. th[t].pc \in Locked => th[t].ent # th[u].ent
        BY <3>4, <2>2 DEF PackageInv, LocksOK, Locked
      <4> QED
        BY <4>1, <4>2
    <3>5. JobOK(th[u], at', seen[ProcOf(u)], older)
      BY <3>1, <3>2, <3>3, <3>4, <1>1, OthersKept
    <3> QED
      BY <3>1, <3>5 DEF ThreadOK, ProcOf
  <2> QED
    BY <2>1, <2>2
<1> QED
  BY <1>3, <1>4, <1>5, <1>6, <1>7 DEF PackageInv

\* Most steps change nothing but the thread's record.
LEMMA QuietMoves ==
  ASSUME PackageInv, NEW t \in Threads, NEW r \in Job,
         th[t].pc # "idle", th' = [th EXCEPT ![t] = r],
         UNCHANGED <<cache, memo, world>>,
         JobOK(r, at, seen[ProcOf(t)], older),
         r.pc \in Locked =>
           \/ th[t].pc \in Locked /\ r.ent = th[t].ent
           \/ \A u \in Threads \ {t} : th[u].pc \in Locked => th[u].ent # r.ent
  PROVE  PackageInv'
<1>1. /\ UNCHANGED <<at, ino, lastHead, lockFile, head, seen, older, memo>>
  BY DEF cache, world
<1>2. /\ at' \in [Entries -> Hash] /\ lastHead' \in Hash /\ lockFile' \in Hash
      /\ memo' \in [Procs -> Answers \cup {None}]
      /\ \A P \in Procs : memo'[P] \in {None, "unreachable", "missing"} \cup seen[P]
  BY <1>1 DEF PackageInv, Types, HeadsOK
<1> QED
  BY <1>1, <1>2, ThreadMoves

\* What the invariant says of one thread.
LEMMA OfThread ==
  ASSUME PackageInv, NEW t \in Threads
  PROVE  /\ th[t] \in Job /\ at \in [Entries -> Hash] /\ lockFile \in Hash /\ lastHead \in Hash
         /\ PlaceOK(th[t]) /\ WantOK(th[t], seen[ProcOf(t)])
         /\ HandOK(th[t], at, seen[ProcOf(t)], older) /\ CloneOK(th[t], at, older)
         /\ \A c \in Commits : at[c] \in {None, c} /\ c \in Entries
         /\ RefDir \in Entries /\ RefDir \notin Commits /\ None \notin Commits
  BY PackageAssumption DEF PackageInv, Types, ThreadOK, JobOK, EntriesOK, Entries

\* A pin that was found is looked for at its commit.
LEMMA ReadLockStep ==
  ASSUME PackageInv, NEW t \in Threads, ReadLock(t)
  PROVE  PackageInv'
<1> DEFINE w == [th[t] EXCEPT !.pin = lockFile, !.want = lockFile]
           m == th[t].mode
<1>0. /\ th[t].pc = "read" /\ UNCHANGED <<cache, memo, world>>
      /\ th[t] \in Job /\ PlaceOK(th[t])
  BY OfThread DEF ReadLock, Go
<1>1. CASE m = "locked" /\ lockFile = None
  <2>1. th' = [th EXCEPT ![t] = Ended(w, "err")]
    BY <1>1 DEF ReadLock, Go
  <2>2. w \in Job
    BY OfThread, ZenonT(60) DEF Job
  <2> QED
    BY <1>0, <2>1, <2>2, EndedBad, QuietMoves DEF Locked
<1>2. CASE ~(m = "locked" /\ lockFile = None)
  <2> DEFINE p == CASE m = "update" -> "ask"
                    [] m # "update" /\ lockFile # None -> "look"
                    [] m = "build" /\ lockFile = None -> "ask"
                    [] m = "offline" /\ lockFile = None -> "atref"
             r == [w EXCEPT !.pc = p]
  <2>1. m \in Modes
    BY <1>0 DEF Job
  <2>2. th' = [th EXCEPT ![t] = r]
    BY <1>2, <2>1 DEF ReadLock, Go, Modes
  <2>3. p \in {"ask", "look", "atref"}
    BY <1>2, <2>1 DEF Modes
  <2>4. /\ p = "look" => m # "update" /\ lockFile # None
        /\ p = "ask" => m \in {"update", "build"} /\ (m = "build" => lockFile = None)
        /\ p = "atref" => m = "offline" /\ lockFile = None
    BY <1>2, <2>1 DEF Modes
  <2> HIDE DEF p
  <2>5. r \in Job
    BY <1>0, <2>3, OfThread DEF Job, Pcs
  <2>6. /\ r.pc = p /\ r.pin = lockFile /\ r.want = lockFile /\ r.mode = m
        /\ r.how = "locked" /\ r.res = "none" /\ ~r.held
    BY <1>0 DEF Job, PlaceOK, Locked
  <2> HIDE DEF r
  <2>7. PlaceOK(r) /\ CloneOK(r, at, older)
    BY <2>3, <2>4, <2>6 DEF PlaceOK, CloneOK, AtCommit, Locked, InHand
  <2>8. WantOK(r, seen[ProcOf(t)]) /\ HandOK(r, at, seen[ProcOf(t)], older)
    BY <2>3, <2>4, <2>6, OfThread DEF WantOK, HandOK, AtCommit, InHand, Hash
  <2> QED
    BY <1>0, <2>2, <2>3, <2>5, <2>6, <2>7, <2>8, QuietMoves DEF JobOK, Locked
<1> QED
  BY <1>1, <1>2

\* A build that is told what the process was told wants it.
LEMMA BuildToldOK ==
  ASSUME PackageInv, NEW t \in Threads, th[t].pc = "ask", th[t].mode = "build",
         NEW x \in {"unreachable", "missing"} \cup seen[ProcOf(t)]
  PROVE  /\ BuildTold(th[t], x) \in Job
         /\ JobOK(BuildTold(th[t], x), at, seen[ProcOf(t)], older)
         /\ BuildTold(th[t], x).pc \notin Locked
<1> DEFINE w == th[t]
<1>0. /\ w \in Job /\ PlaceOK(w) /\ seen[ProcOf(t)] \subseteq Commits
      /\ w.pin = None /\ w.res = "none" /\ ~w.held
  BY OfThread, ProcIs DEF PackageInv, Types, PlaceOK, Locked
<1>1. CASE x = "missing"
  BY <1>0, <1>1, EndedBad DEF BuildTold, Locked
<1>2. CASE x # "missing" /\ x = "unreachable"
  <2> DEFINE r == [w EXCEPT !.pc = "fallback"]
  <2>1. BuildTold(w, x) = r
    BY <1>2 DEF BuildTold
  <2>2. r \in Job
    BY <1>0 DEF Job, Pcs
  <2>3. /\ r.pc = "fallback" /\ r.mode = "build" /\ r.pin = None /\ r.res = "none" /\ ~r.held
    BY <1>0 DEF Job
  <2> HIDE DEF r
  <2>4. JobOK(r, at, seen[ProcOf(t)], older)
    BY <2>3 DEF JobOK, PlaceOK, WantOK, HandOK, CloneOK, AtCommit, Locked, InHand
  <2> QED
    BY <2>1, <2>2, <2>3, <2>4 DEF Locked
<1>3. CASE x # "missing" /\ x # "unreachable"
  <2> DEFINE r == [w EXCEPT !.pc = "look", !.want = x, !.how = "head"]
  <2>1. BuildTold(w, x) = r /\ x \in seen[ProcOf(t)] /\ x \in Commits
    BY <1>0, <1>3 DEF BuildTold
  <2>2. r \in Job
    BY <1>0, <2>1 DEF Job, Pcs, Hash
  <2>3. /\ r.pc = "look" /\ r.mode = "build" /\ r.pin = None /\ r.res = "none" /\ ~r.held
        /\ r.want = x /\ r.how = "head"
    BY <1>0 DEF Job
  <2> HIDE DEF r
  <2>4. JobOK(r, at, seen[ProcOf(t)], older)
    BY <2>1, <2>3 DEF JobOK, PlaceOK, WantOK, HandOK, CloneOK, AtCommit, Locked, InHand
  <2> QED
    BY <2>1, <2>2, <2>3, <2>4 DEF Locked
<1> QED
  BY <1>1, <1>2, <1>3

\* remote_head_once, asked ...
LEMMA AskOnceStep ==
  ASSUME PackageInv, NEW t \in Threads, NEW x \in Told, AskOnce(t, x)
  PROVE  PackageInv'
<1>1. /\ th[t].pc = "ask" /\ th[t].mode = "build"
      /\ th' = [th EXCEPT ![t] = BuildTold(th[t], x)]
      /\ UNCHANGED <<cache, world>>
      /\ memo' = [memo EXCEPT ![ProcOf(t)] = x]
  BY DEF AskOnce, Go
<1>2. ProcOf(t) \in Procs /\ head \in seen[ProcOf(t)] /\ head \in Commits
  BY <1>1, ProcIs DEF PackageInv, HeadsOK, Types
<1>3. x \in {"unreachable", "missing"} \cup seen[ProcOf(t)]
  BY <1>2 DEF Told
<1>4. memo' \in [Procs -> Answers \cup {None}]
  BY <1>1, <1>2 DEF PackageInv, Types, Answers, Told
<1>5. \A P \in Procs : memo'[P] \in {None, "unreachable", "missing"} \cup seen[P]
  BY <1>1, <1>2, <1>3 DEF PackageInv, Types, HeadsOK
<1>6. UNCHANGED <<at, ino, lastHead, lockFile, head, seen, older>>
  BY <1>1 DEF cache, world
<1>7. /\ BuildTold(th[t], x) \in Job
      /\ JobOK(BuildTold(th[t], x), at, seen[ProcOf(t)], older)
      /\ BuildTold(th[t], x).pc \notin Locked
  BY <1>1, <1>3, BuildToldOK
<1>8. at' \in [Entries -> Hash] /\ lastHead' \in Hash /\ lockFile' \in Hash
  BY <1>6, OfThread
<1> QED
  BY <1>1, <1>4, <1>5, <1>6, <1>7, <1>8, ThreadMoves

\* ... and remembered.
LEMMA AskMemoStep ==
  ASSUME PackageInv, NEW t \in Threads, AskMemo(t)
  PROVE  PackageInv'
<1>1. /\ th[t].pc = "ask" /\ th[t].mode = "build" /\ memo[ProcOf(t)] # None
      /\ th' = [th EXCEPT ![t] = BuildTold(th[t], memo[ProcOf(t)])]
      /\ UNCHANGED <<cache, memo, world>>
  BY DEF AskMemo, Go
<1>2. memo[ProcOf(t)] \in {"unreachable", "missing"} \cup seen[ProcOf(t)]
  BY <1>1, ProcIs DEF PackageInv, HeadsOK
<1> QED
  BY <1>1, <1>2, BuildToldOK, QuietMoves

\* `almide update`, told the head.
LEMMA AskUpdateStep ==
  ASSUME PackageInv, NEW t \in Threads, NEW x \in Told, AskUpdate(t, x)
  PROVE  PackageInv'
<1> DEFINE w == th[t]
<1>1. /\ w.pc = "ask" /\ w.mode = "update"
      /\ th' = [th EXCEPT ![t] = UpdateTold(w, x)]
      /\ UNCHANGED <<cache, memo, world>>
  BY DEF AskUpdate, Go
<1>2. w \in Job /\ w.res = "none" /\ ~w.held
  BY <1>1, OfThread DEF PlaceOK, Locked
<1>3. CASE x \notin Commits
  <2>1. th' = [th EXCEPT ![t] = Ended(w, "err")]
    <3>1. x # w.pin
      BY <1>2, <1>3, PackageAssumption DEF Told, Job, Hash, PackageInv, Types
    <3> QED
      BY <1>1, <1>3, <3>1 DEF UpdateTold
  <2> QED
    BY <1>1, <1>2, <2>1, EndedBad, QuietMoves DEF Locked
<1>4. CASE x \in Commits /\ x = w.pin
  <2>1. th' = [th EXCEPT ![t] = Ended(w, "ok")]
    BY <1>1, <1>4 DEF UpdateTold
  <2> QED
    BY <1>1, <1>2, <2>1, EndedWell, QuietMoves DEF Locked
<1>5. CASE x \in Commits /\ x # w.pin
  <2> DEFINE r == [w EXCEPT !.pc = "drop", !.want = x]
  <2>1. th' = [th EXCEPT ![t] = r]
    BY <1>1, <1>5 DEF UpdateTold
  <2>2. r \in Job
    BY <1>2, <1>5 DEF Job, Pcs, Hash
  <2>3. r.pc = "drop" /\ r.mode = "update" /\ r.res = "none" /\ ~r.held
    BY <1>1, <1>2 DEF Job
  <2> HIDE DEF r
  <2>4. JobOK(r, at, seen[ProcOf(t)], older)
    BY <2>3 DEF JobOK, PlaceOK, WantOK, HandOK, CloneOK, AtCommit, Locked, InHand
  <2> QED
    BY <1>1, <2>1, <2>2, <2>3, <2>4, QuietMoves DEF Locked
<1> QED
  BY <1>3, <1>4, <1>5

\* A resolution that fails.
LEMMA Fails ==
  ASSUME PackageInv, NEW t \in Threads, th[t].pc # "idle",
         th' = [th EXCEPT ![t] = Ended(th[t], "err")], UNCHANGED <<cache, memo, world>>
  PROVE  PackageInv'
  BY OfThread, EndedBad, QuietMoves DEF Locked

\* A resolution that is handed the entry of the commit that it wants, or the
\* ref's, which is at that commit.
LEMMA HandsOver ==
  ASSUME PackageInv, NEW t \in Threads, NEW e \in Entries,
         th[t].pc \in AtCommit, th[t].mode # "update",
         e = th[t].want \/ (e = RefDir /\ at[RefDir] = th[t].want), at[e] # None,
         th' = [th EXCEPT ![t] = Handed(th[t], e)], UNCHANGED <<cache, memo, world>>
  PROVE  PackageInv'
<1> DEFINE w == th[t]
           told == seen[ProcOf(t)]
<1>1. /\ w \in Job /\ at \in [Entries -> Hash] /\ w.res = "none" /\ w.want \in Commits
      /\ w.pin # None => w.pin = w.want /\ w.how = "locked"
      /\ w.pin = None => w.want \in told /\ w.how = "head"
  BY OfThread DEF PlaceOK, WantOK, AtCommit
<1>2. at[e] = w.want
  BY <1>1, OfThread
<1>3. Handed(w, e) \in Job /\ JobOK(Handed(w, e), at, told, older) /\ Handed(w, e).pc \in InHand
  BY <1>1, <1>2, HandedOK
<1> QED
  BY <1>3, QuietMoves DEF AtCommit, InHand, Locked

\* A resolution that goes on with the commit it wants, from one place of
\* fetch_dep_at_commit to the next.
LEMMA GoesOn ==
  ASSUME PackageInv, NEW t \in Threads, NEW r \in Job,
         th[t].pc \in AtCommit, th[t].mode # "update",
         r.mode = th[t].mode, r.pin = th[t].pin, r.want = th[t].want, r.how = th[t].how,
         r.res = th[t].res, r.pc \in AtCommit,
         r.pc \notin {"look", "lookref"} => r.ent = r.want,
         r.pc = "rename" => r.got = r.want,
         r.held <=> r.pc \in Locked,
         r.pc \in Locked \cup {"lock"} => r.fd = 1,
         CloneOK(r, at, older),
         r.pc \in Locked =>
           \/ th[t].pc \in Locked /\ r.ent = th[t].ent
           \/ \A u \in Threads \ {t} : th[u].pc \in Locked => th[u].ent # r.ent,
         th' = [th EXCEPT ![t] = r], UNCHANGED <<cache, memo, world>>
  PROVE  PackageInv'
<1> DEFINE w == th[t]
           told == seen[ProcOf(t)]
<1>1. /\ w.res = "none" /\ w.want \in Commits
      /\ w.pin # None => w.pin = w.want /\ w.how = "locked"
      /\ w.pin = None => w.want \in told /\ w.how = "head"
  BY OfThread DEF PlaceOK, WantOK, AtCommit
<1>2. PlaceOK(r)
  BY <1>1 DEF PlaceOK, AtCommit, Locked, InHand
<1>3. WantOK(r, told)
  BY <1>1 DEF WantOK, AtCommit
<1>4. HandOK(r, at, told, older)
  BY <1>1 DEF HandOK, AtCommit, InHand
<1> QED
  BY <1>2, <1>3, <1>4, QuietMoves DEF JobOK, AtCommit
-----------------------------------------------------------------------------
(* fetch_dep_at_commit *)

\* The commit's own entry will do.
LEMMA LookStep ==
  ASSUME PackageInv, NEW t \in Threads, Look(t)
  PROVE  PackageInv'
<1> DEFINE w == th[t]
           r == [w EXCEPT !.pc = "lookref"]
<1>1. /\ w.pc = "look" /\ w.mode # "update" /\ w \in Job /\ w.want \in Entries /\ ~w.held
      /\ UNCHANGED <<cache, memo, world>>
  BY OfThread DEF Look, Go, PlaceOK, WantOK, AtCommit, InHand, Locked
<1>2. CASE at[w.want] # None
  <2>1. th' = [th EXCEPT ![t] = Handed(w, w.want)]
    BY <1>2 DEF Look, Go
  <2> QED
    BY <1>1, <1>2, <2>1, HandsOver DEF AtCommit
<1>3. CASE at[w.want] = None
  <2>1. th' = [th EXCEPT ![t] = r]
    BY <1>3 DEF Look, Go
  <2>2. /\ r \in Job /\ r.pc = "lookref" /\ ~r.held /\ r.res = w.res
        /\ r.mode = w.mode /\ r.pin = w.pin /\ r.want = w.want /\ r.how = w.how
    BY <1>1 DEF Job, Pcs
  <2> HIDE DEF r
  <2> QED
    BY <1>1, <2>1, <2>2, GoesOn DEF AtCommit, Locked, CloneOK
<1> QED
  BY <1>2, <1>3

\* The ref's entry will do when it is at the commit.
LEMMA LookRefStep ==
  ASSUME PackageInv, NEW t \in Threads, LookRef(t)
  PROVE  PackageInv'
<1> DEFINE w == th[t]
           r == [w EXCEPT !.pc = "populate", !.ent = w.want]
<1>1. /\ w.pc = "lookref" /\ w.mode # "update" /\ w \in Job /\ w.want \in Commits /\ ~w.held
      /\ UNCHANGED <<cache, memo, world>>
  BY OfThread DEF LookRef, Go, PlaceOK, WantOK, AtCommit, InHand, Locked
<1>2. CASE at[RefDir] = w.want
  <2>1. th' = [th EXCEPT ![t] = Handed(w, RefDir)]
    BY <1>2 DEF LookRef, Go
  <2>2. at[RefDir] # None /\ RefDir \in Entries
    BY <1>1, <1>2, OfThread
  <2> QED
    BY <1>1, <1>2, <2>1, <2>2, HandsOver DEF AtCommit
<1>3. CASE at[RefDir] # w.want
  <2>1. th' = [th EXCEPT ![t] = r]
    BY <1>3 DEF LookRef, Go
  <2>2. /\ r \in Job /\ r.pc = "populate" /\ ~r.held /\ r.res = w.res /\ r.ent = r.want
        /\ r.mode = w.mode /\ r.pin = w.pin /\ r.want = w.want /\ r.how = w.how
    BY <1>1 DEF Job, Pcs, Entries
  <2> HIDE DEF r
  <2> QED
    BY <1>1, <2>1, <2>2, GoesOn DEF AtCommit, Locked, CloneOK
<1> QED
  BY <1>2, <1>3

\* The entry is the commit's from here to the rename.
LEMMA PopulateStep ==
  ASSUME PackageInv, NEW t \in Threads, Populate(t)
  PROVE  PackageInv'
<1> DEFINE w == th[t]
           r == [w EXCEPT !.pc = "open"]
<1>1. /\ w.pc = "populate" /\ w.mode # "update" /\ w \in Job /\ ~w.held
      /\ w.want \in Entries /\ w.ent = w.want
      /\ UNCHANGED <<cache, memo, world>>
  BY OfThread DEF Populate, Go, PlaceOK, WantOK, AtCommit, InHand, Locked
<1>2. CASE at[w.ent] # None
  <2>1. th' = [th EXCEPT ![t] = Handed(w, w.ent)]
    BY <1>2 DEF Populate, Go
  <2> QED
    BY <1>1, <1>2, <2>1, HandsOver DEF AtCommit
<1>3. CASE at[w.ent] = None /\ w.mode = "offline"
  <2>1. th' = [th EXCEPT ![t] = Ended(w, "err")]
    BY <1>3 DEF Populate, Go
  <2> QED
    BY <1>1, <2>1, Fails
<1>4. CASE at[w.ent] = None /\ w.mode # "offline"
  <2>1. th' = [th EXCEPT ![t] = r]
    BY <1>4 DEF Populate, Go
  <2>2. /\ r \in Job /\ r.pc = "open" /\ ~r.held /\ r.res = w.res /\ r.ent = r.want
        /\ r.mode = w.mode /\ r.pin = w.pin /\ r.want = w.want /\ r.how = w.how
    BY <1>1 DEF Job, Pcs
  <2> HIDE DEF r
  <2> QED
    BY <1>1, <2>1, <2>2, GoesOn DEF AtCommit, Locked, CloneOK
<1> QED
  BY <1>2, <1>3, <1>4

\* Everyone opens the same lock file.
LEMMA OpenStep ==
  ASSUME PackageInv, NEW t \in Threads, Open(t)
  PROVE  PackageInv'
<1> DEFINE w == th[t]
           r == [w EXCEPT !.pc = "lock", !.fd = ino[w.ent]]
<1>1. /\ w.pc = "open" /\ w \in Job /\ ~w.held /\ w.res = "none"
      /\ w.mode = "update" => w.ent = RefDir
      /\ w.mode # "update" => w.ent = w.want
      /\ th' = [th EXCEPT ![t] = r] /\ UNCHANGED <<cache, memo, world>>
  BY OfThread DEF Open, Go, PlaceOK, WantOK, AtCommit, Locked
<1>2. ino[w.ent] = 1
  BY <1>1 DEF PackageInv, Types, Job
<1>3. /\ r \in Job /\ r.pc = "lock" /\ ~r.held /\ r.res = w.res /\ r.ent = w.ent /\ r.fd = 1
      /\ r.mode = w.mode /\ r.pin = w.pin /\ r.want = w.want /\ r.how = w.how
  BY <1>1, <1>2 DEF Job, Pcs
<1> HIDE DEF r
<1>4. CASE w.mode # "update"
  BY <1>1, <1>3, <1>4, GoesOn DEF AtCommit, Locked, CloneOK
<1>5. CASE w.mode = "update"
  <2>1. JobOK(r, at, seen[ProcOf(t)], older)
    BY <1>1, <1>3, <1>5
    DEF JobOK, PlaceOK, WantOK, HandOK, CloneOK, AtCommit, Locked, InHand
  <2> QED
    BY <1>1, <1>3, <2>1, QuietMoves DEF Locked
<1> QED
  BY <1>4, <1>5

\* A lock is granted when nobody holds the entry's lock file.
LEMMA LockStep ==
  ASSUME PackageInv, NEW t \in Threads, Lock(t)
  PROVE  PackageInv'
<1> DEFINE w == th[t]
           p == IF w.mode = "update" THEN "aside" ELSE "recheck"
           r == [w EXCEPT !.held = TRUE, !.pc = p]
<1>1. /\ w.pc = "lock" /\ w \in Job /\ w.res = "none" /\ w.fd = 1
      /\ w.mode = "update" => w.ent = RefDir
      /\ w.mode # "update" => w.ent = w.want
      /\ th' = [th EXCEPT ![t] = r] /\ UNCHANGED <<cache, memo, world>>
  BY OfThread DEF Lock, Go, PlaceOK, WantOK, AtCommit, Locked
<1>2. ASSUME NEW u \in Threads \ {t}, th[u].pc \in Locked
      PROVE  th[u].ent # w.ent
  <2>1. th[u].held /\ th[u].fd = 1
    BY <1>2, OfThread DEF PlaceOK
  <2> QED
    BY <1>1, <2>1 DEF Lock
<1>3. /\ r \in Job /\ r.pc = p /\ r.held /\ r.res = w.res /\ r.ent = w.ent /\ r.fd = 1
      /\ r.mode = w.mode /\ r.pin = w.pin /\ r.want = w.want /\ r.how = w.how
  BY <1>1 DEF Job, Pcs
<1> HIDE DEF r
<1>4. CASE w.mode # "update"
  BY <1>1, <1>2, <1>3, <1>4, GoesOn, ZenonT(60) DEF AtCommit, Locked, CloneOK
<1>5. CASE w.mode = "update"
  <2>1. JobOK(r, at, seen[ProcOf(t)], older)
    BY <1>1, <1>3, <1>5
    DEF JobOK, PlaceOK, WantOK, HandOK, CloneOK, AtCommit, Locked, InHand
  <2> QED
    BY <1>1, <1>2, <1>3, <2>1, QuietMoves, ZenonT(60)
<1> QED
  BY <1>4, <1>5

\* Under the lock, an entry that is not there stays away.
LEMMA RecheckStep ==
  ASSUME PackageInv, NEW t \in Threads, Recheck(t)
  PROVE  PackageInv'
<1> DEFINE w == th[t]
           p == IF w.how = "head" THEN "shallow" ELSE "full"
           r == [w EXCEPT !.pc = p]
<1>1. /\ w.pc = "recheck" /\ w.mode # "update" /\ w \in Job /\ w.held /\ w.fd = 1
      /\ w.want \in Entries /\ w.ent = w.want
      /\ UNCHANGED <<cache, memo, world>>
  BY OfThread DEF Recheck, Go, PlaceOK, WantOK, AtCommit, InHand, Locked
<1>2. CASE at[w.ent] # None
  <2>1. th' = [th EXCEPT ![t] = Handed(w, w.ent)]
    BY <1>2 DEF Recheck, Go
  <2> QED
    BY <1>1, <1>2, <2>1, HandsOver DEF AtCommit
<1>3. CASE at[w.ent] = None
  <2>1. th' = [th EXCEPT ![t] = r]
    BY <1>3 DEF Recheck, Go
  <2>2. /\ r \in Job /\ r.pc \in {"shallow", "full"} /\ r.held /\ r.fd = 1 /\ r.res = w.res
        /\ r.ent = w.ent
        /\ r.mode = w.mode /\ r.pin = w.pin /\ r.want = w.want /\ r.how = w.how
    BY <1>1 DEF Job, Pcs
  <2> HIDE DEF r
  <2> QED
    BY <1>1, <1>3, <2>1, <2>2, GoesOn DEF AtCommit, Locked, CloneOK
<1> QED
  BY <1>2, <1>3

\* The clone that is kept has the commit checked out.
LEMMA CloneStep ==
  ASSUME PackageInv, NEW t \in Threads, Shallow(t) \/ ShallowFails(t) \/ Full(t)
  PROVE  PackageInv'
<1> DEFINE w == th[t]
           p == IF (Shallow(t) /\ head = w.want) \/ Full(t) THEN "rename" ELSE "full"
           r == IF p = "rename" THEN [w EXCEPT !.pc = "rename", !.got = w.want]
                                ELSE [w EXCEPT !.pc = "full"]
<1>1. /\ w.pc \in {"shallow", "full"} /\ UNCHANGED <<cache, memo, world>>
  BY DEF Shallow, ShallowFails, Full, Go
<1>2. /\ w.mode # "update" /\ w \in Job /\ w.held /\ w.fd = 1
      /\ w.ent = w.want /\ w.want \in Commits
      /\ at[w.ent] = None \/ w.ent \in older
  BY <1>1, OfThread DEF PlaceOK, WantOK, CloneOK, AtCommit, Locked
<1>3. th' = [th EXCEPT ![t] = r]
  BY DEF Shallow, ShallowFails, Full, Go
<1>4. /\ r \in Job /\ r.pc \in {"full", "rename"} /\ r.held /\ r.fd = 1 /\ r.res = w.res
      /\ r.ent = w.ent /\ (r.pc = "rename" => r.got = w.want)
      /\ r.mode = w.mode /\ r.pin = w.pin /\ r.want = w.want /\ r.how = w.how
  BY <1>2 DEF Job, Pcs
<1> HIDE DEF r
<1> QED
  BY <1>1, <1>2, <1>3, <1>4, GoesOn DEF AtCommit, Locked, CloneOK

\* A clone that failed leaves the entry as it was.
LEMMA FullFailsStep ==
  ASSUME PackageInv, NEW t \in Threads, FullFails(t)
  PROVE  PackageInv'
<1> DEFINE w == th[t]
<1>1. /\ w.pc = "full" /\ w.mode # "update" /\ w.want \in Entries /\ w.ent = w.want
      /\ UNCHANGED <<cache, memo, world>>
  BY OfThread DEF FullFails, Go, PlaceOK, WantOK, AtCommit, InHand, Locked
<1>2. CASE at[w.ent] # None
  <2>1. th' = [th EXCEPT ![t] = Handed(w, w.ent)]
    BY <1>2 DEF FullFails, Go
  <2> QED
    BY <1>1, <1>2, <2>1, HandsOver DEF AtCommit
<1>3. CASE at[w.ent] = None
  <2>1. th' = [th EXCEPT ![t] = Ended(w, "err")]
    BY <1>3 DEF FullFails, Go
  <2> QED
    BY <1>1, <2>1, Fails
<1> QED
  BY <1>2, <1>3

\* The entry that the clone is renamed to is the commit's.
LEMMA RenameStep ==
  ASSUME PackageInv, NEW t \in Threads, Rename(t)
  PROVE  PackageInv'
<1> DEFINE w == th[t]
           r == Handed(w, w.ent)
           told == seen[ProcOf(t)]
<1>1. /\ w.pc = "rename" /\ th' = [th EXCEPT ![t] = r]
      /\ at' = [at EXCEPT ![w.ent] = IF @ = None THEN w.got ELSE @]
      /\ UNCHANGED <<ino, lastHead, lockFile, memo, head, seen, older>>
  BY DEF Rename, Go, world
<1>2. /\ w.mode # "update" /\ w \in Job /\ w.res = "none"
      /\ w.ent = w.want /\ w.got = w.want /\ w.want \in Commits
      /\ w.pin # None => w.pin = w.want /\ w.how = "locked"
      /\ w.pin = None => w.want \in told /\ w.how = "head"
  BY <1>1, OfThread DEF PlaceOK, WantOK, AtCommit
<1>3. /\ at' \in [Entries -> Hash] /\ at'[w.ent] = w.ent
      /\ \A e \in Entries : at'[e] = at[e] \/ (e = w.ent /\ at[e] = None /\ at'[e] = e)
  BY <1>1, <1>2, OfThread DEF Hash
<1>4. r \in Job /\ JobOK(r, at', told, older) /\ r.pc \in InHand
  BY <1>2, <1>3, HandedOK, OfThread
<1>5. /\ lastHead' \in Hash /\ lockFile' \in Hash /\ memo' \in [Procs -> Answers \cup {None}]
      /\ \A P \in Procs : memo'[P] \in {None, "unreachable", "missing"} \cup seen[P]
  BY <1>1 DEF PackageInv, Types, HeadsOK
<1>6. \A e \in Entries :
         \/ at'[e] = at[e]
         \/ e = RefDir /\ at'[e] = None
         \/ e \in Commits /\ at[e] = None /\ at'[e] = e /\ th[t].pc \in Locked /\ th[t].ent = e
  BY <1>1, <1>2, <1>3 DEF Locked
<1>7. r.pc \notin Locked /\ th[t].pc # "idle" /\ UNCHANGED <<ino, seen, older, head>>
  BY <1>1, <1>4 DEF InHand, Locked
<1> HIDE DEF r
<1> QED
  BY <1>1, <1>3, <1>4, <1>5, <1>6, <1>7, ThreadMoves

\* The record of the resolution.
LEMMA NoteStep ==
  ASSUME PackageInv, NEW t \in Threads, TruncHead(t) \/ NoteHead(t)
  PROVE  PackageInv'
<1> DEFINE w == th[t]
           r == [w EXCEPT !.pc = IF w.pc = "trunc" THEN "note" ELSE "use"]
<1>1. /\ w.pc \in {"trunc", "note"} /\ th' = [th EXCEPT ![t] = r]
      /\ lastHead' \in {None, w.want}
      /\ UNCHANGED <<at, ino, lockFile, memo, head, seen, older>>
  BY DEF TruncHead, NoteHead, Go, world
<1>2. w \in Job /\ w.mode # "update" /\ w.res = "none" /\ ~w.held
  BY <1>1, OfThread DEF PlaceOK, InHand, Locked
<1>3. /\ r \in Job /\ r.pc \in InHand \ {"trunc"} /\ r.res = "none" /\ ~r.held /\ r.ent = w.ent
      /\ r.mode = w.mode /\ r.pin = w.pin /\ r.how = w.how
  BY <1>1, <1>2 DEF Job, Pcs, InHand
<1> HIDE DEF r
<1>4. PlaceOK(r) /\ WantOK(r, seen[ProcOf(t)]) /\ CloneOK(r, at, older)
  BY <1>2, <1>3 DEF PlaceOK, WantOK, CloneOK, AtCommit, InHand, Locked
<1>5. HandOK(r, at, seen[ProcOf(t)], older)
  BY <1>1, <1>2, <1>3, OfThread DEF HandOK, InHand
<1>6. /\ at' \in [Entries -> Hash] /\ lastHead' \in Hash /\ lockFile' \in Hash
      /\ memo' \in [Procs -> Answers \cup {None}]
      /\ \A P \in Procs : memo'[P] \in {None, "unreachable", "missing"} \cup seen[P]
  BY <1>1, <1>2, OfThread DEF PackageInv, Types, HeadsOK, Job, Hash
<1> QED
  BY <1>1, <1>3, <1>4, <1>5, <1>6, ThreadMoves DEF JobOK, InHand, Locked
-----------------------------------------------------------------------------
(* Cache-only mode, the fallback, and what comes of a resolution *)

\* Cache-only mode has no pin to keep to.
LEMMA AtRefStep ==
  ASSUME PackageInv, NEW t \in Threads, AtRef(t)
  PROVE  PackageInv'
<1> DEFINE w == th[t]
<1>1. /\ w.pc = "atref" /\ w.mode = "offline" /\ w.pin = None /\ w \in Job /\ w.res = "none"
      /\ UNCHANGED <<cache, memo, world>>
  BY OfThread DEF AtRef, Go, PlaceOK
<1>2. CASE at[RefDir] # None
  <2>1. th' = [th EXCEPT ![t] = Handed(w, RefDir)]
    BY <1>2 DEF AtRef, Go
  <2>2. /\ Handed(w, RefDir) \in Job /\ JobOK(Handed(w, RefDir), at, seen[ProcOf(t)], older)
        /\ Handed(w, RefDir).pc \in InHand
    BY <1>1, HandedOK, OfThread
  <2> QED
    BY <1>1, <2>1, <2>2, QuietMoves DEF InHand, Locked
<1>3. CASE at[RefDir] = None
  <2>1. th' = [th EXCEPT ![t] = Ended(w, "err")]
    BY <1>3 DEF AtRef, Go
  <2> QED
    BY <1>1, <2>1, Fails
<1> QED
  BY <1>2, <1>3

\* A fallback is marked as one.
LEMMA FallbackStep ==
  ASSUME PackageInv, NEW t \in Threads, Fallback(t)
  PROVE  PackageInv'
<1> DEFINE w == [th[t] EXCEPT !.how = "fallback"]
           e == IF lastHead # None /\ at[lastHead] # None THEN lastHead ELSE RefDir
<1>1. /\ th[t].pc = "fallback" /\ UNCHANGED <<cache, memo, world>>
      /\ w \in Job /\ w.mode = "build" /\ w.pin = None /\ w.res = "none" /\ w.how = "fallback"
  BY OfThread DEF Fallback, Go, PlaceOK, Job
<1>2. e \in Entries
  BY OfThread DEF Hash
<1>3. CASE at[e] # None
  <2>1. th' = [th EXCEPT ![t] = Handed(w, e)]
    BY <1>3 DEF Fallback, Go
  <2>2. /\ Handed(w, e) \in Job /\ JobOK(Handed(w, e), at, seen[ProcOf(t)], older)
        /\ Handed(w, e).pc \in InHand
    BY <1>1, <1>2, HandedOK, OfThread
  <2> QED
    BY <1>1, <2>1, <2>2, QuietMoves DEF InHand, Locked
<1>4. CASE at[e] = None
  <2>1. th' = [th EXCEPT ![t] = Ended(th[t], "err")]
    BY <1>4 DEF Fallback, Go
  <2> QED
    BY <1>1, <2>1, Fails
<1> QED
  BY <1>3, <1>4

\* What is in the directory now is what counts.
LEMMA UseStep ==
  ASSUME PackageInv, NEW t \in Threads, Use(t)
  PROVE  PackageInv'
<1> DEFINE w == [th[t] EXCEPT !.got = at[th[t].ent]]
           told == seen[ProcOf(t)]
<1>1. /\ th[t].pc = "use" /\ UNCHANGED <<cache, memo, world>> /\ th[t] \in Job
  BY OfThread DEF Use, Go
<1>2. /\ w \in Job /\ w.got = at[w.ent] /\ w.pc = "use" /\ w.res = "none" /\ ~w.held
      /\ w.mode = th[t].mode /\ w.mode # "update" /\ w.pin = th[t].pin /\ w.how = th[t].how
      /\ w.ent = th[t].ent
  BY <1>1, OfThread DEF Job, PlaceOK, InHand, Locked
<1>3. ASSUME w.pin # None
      PROVE  w.got = w.pin \/ (w.ent = RefDir /\ (w.got = None \/ RefDir \in older))
  BY <1>1, <1>2, <1>3, OfThread DEF HandOK, InHand
<1>4. ASSUME w.pin = None, w.mode = "build", w.how # "fallback", w.got # None
      PROVE  w.got \in told
  BY <1>1, <1>2, <1>4, OfThread DEF HandOK, InHand
<1> HIDE DEF w
<1>5. CASE w.mode = "build" /\ w.how # "fallback" /\ w.got # None
  <2> DEFINE r == [w EXCEPT !.pc = "save"]
  <2>1. th' = [th EXCEPT ![t] = r]
    BY <1>5 DEF Use, Go, w
  <2>2. /\ r \in Job /\ r.pc = "save" /\ r.mode = "build" /\ r.res = "none" /\ ~r.held
        /\ r.got = w.got /\ r.pin = w.pin /\ r.ent = w.ent
    BY <1>2, <1>5 DEF Job, Pcs
  <2> HIDE DEF r
  <2>3. JobOK(r, at, told, older)
    BY <1>3, <1>4, <1>5, <2>2
    DEF JobOK, PlaceOK, WantOK, HandOK, CloneOK, AtCommit, Locked, InHand
  <2> QED
    BY <1>1, <2>1, <2>2, <2>3, QuietMoves DEF Locked
<1>6. CASE w.mode = "locked" /\ w.got \notin {None, w.pin}
  <2>1. th' = [th EXCEPT ![t] = Ended(w, "err")]
    BY <1>6 DEF Use, Go, w
  <2> QED
    BY <1>1, <1>2, <2>1, EndedBad, QuietMoves DEF Locked
<1>7. CASE /\ ~(w.mode = "build" /\ w.how # "fallback" /\ w.got # None)
           /\ ~(w.mode = "locked" /\ w.got \notin {None, w.pin})
  <2>1. th' = [th EXCEPT ![t] = Ended(w, "ok")]
    BY <1>7 DEF Use, Go, w
  <2>2. Ended(w, "ok") \in Job /\ JobOK(Ended(w, "ok"), at, told, older) /\ Ended(w, "ok").pc = "idle"
    BY <1>2, <1>3, EndedWell
  <2> QED
    BY <1>1, <2>1, <2>2, QuietMoves DEF Locked
<1> QED
  BY <1>5, <1>6, <1>7

\* The lock is written.
LEMMA PinStep ==
  ASSUME PackageInv, NEW t \in Threads, Save(t) \/ Put(t)
  PROVE  PackageInv'
<1> DEFINE w == th[t]
           r == Ended(w, "ok")
           told == seen[ProcOf(t)]
<1>1. /\ w.pc \in {"save", "put"} /\ th' = [th EXCEPT ![t] = r]
      /\ lockFile' \in {w.got, w.want}
      /\ UNCHANGED <<at, ino, lastHead, memo, head, seen, older>>
  BY DEF Save, Put, Go, world
<1>2. /\ w \in Job
      /\ w.mode # "update" /\ w.pin # None =>
           w.got = w.pin \/ (w.ent = RefDir /\ (w.got = None \/ RefDir \in older))
  BY <1>1, OfThread DEF PlaceOK, HandOK
<1>3. r \in Job /\ JobOK(r, at, told, older) /\ r.pc = "idle"
  BY <1>2, EndedWell
<1>4. /\ at' \in [Entries -> Hash] /\ lastHead' \in Hash /\ lockFile' \in Hash
      /\ memo' \in [Procs -> Answers \cup {None}]
      /\ \A P \in Procs : memo'[P] \in {None, "unreachable", "missing"} \cup seen[P]
  BY <1>1, <1>2, OfThread DEF PackageInv, Types, HeadsOK, Job
<1> HIDE DEF r
<1> QED
  BY <1>1, <1>3, <1>4, ThreadMoves DEF Locked

\* `almide update` drops the ref's checkout.
LEMMA DropStep ==
  ASSUME PackageInv, NEW t \in Threads, Drop(t)
  PROVE  PackageInv'
<1> DEFINE w == th[t]
           r == IF at[RefDir] = None THEN [w EXCEPT !.pc = "put"]
                                     ELSE [w EXCEPT !.pc = "open", !.ent = RefDir]
<1>1. /\ w.pc = "drop" /\ w.mode = "update" /\ w \in Job /\ w.res = "none" /\ ~w.held
      /\ th' = [th EXCEPT ![t] = r] /\ UNCHANGED <<cache, memo, world>>
  BY OfThread DEF Drop, Go, PlaceOK, Locked
<1>2. /\ r \in Job /\ r.pc \in {"put", "open"} /\ r.mode = "update" /\ r.res = "none" /\ ~r.held
      /\ r.pc = "open" => r.ent = RefDir
  BY <1>1 DEF Job, Pcs, Entries
<1> HIDE DEF r
<1>3. JobOK(r, at, seen[ProcOf(t)], older)
  BY <1>2 DEF JobOK, PlaceOK, WantOK, HandOK, CloneOK, AtCommit, Locked, InHand
<1> QED
  BY <1>1, <1>2, <1>3, QuietMoves DEF Locked

\* Only the ref's entry is ever taken away.
LEMMA AsideStep ==
  ASSUME PackageInv, NEW t \in Threads, Aside(t)
  PROVE  PackageInv'
<1> DEFINE w == th[t]
           r == [w EXCEPT !.pc = "put", !.held = FALSE, !.fd = 0]
<1>1. /\ w.pc = "aside" /\ w.mode = "update" /\ w \in Job /\ w.res = "none"
      /\ th' = [th EXCEPT ![t] = r] /\ at' = [at EXCEPT ![RefDir] = None]
      /\ UNCHANGED <<ino, lastHead, lockFile, memo, head, seen, older>>
  BY OfThread DEF Aside, Go, PlaceOK, world
<1>2. r \in Job /\ r.pc = "put" /\ r.mode = "update" /\ r.res = "none" /\ ~r.held
  BY <1>1 DEF Job, Pcs
<1> HIDE DEF r
<1>3. JobOK(r, at', seen[ProcOf(t)], older)
  BY <1>2 DEF JobOK, PlaceOK, WantOK, HandOK, CloneOK, AtCommit, Locked, InHand
<1>4. /\ at' \in [Entries -> Hash] /\ lastHead' \in Hash /\ lockFile' \in Hash
      /\ memo' \in [Procs -> Answers \cup {None}]
      /\ \A P \in Procs : memo'[P] \in {None, "unreachable", "missing"} \cup seen[P]
      /\ \A e \in Entries : at'[e] = at[e] \/ (e = RefDir /\ at'[e] = None)
  BY <1>1, OfThread DEF PackageInv, Types, HeadsOK, Hash
<1> QED
  BY <1>1, <1>2, <1>3, <1>4, ThreadMoves DEF Locked
-----------------------------------------------------------------------------
(* Starts, kills, and what happens around them *)

\* For a thread that is idle it does not matter what its process was told.
LEMMA IdleKept ==
  ASSUME NEW w, NEW a, NEW told, NEW more, NEW o, w.pc = "idle", JobOK(w, a, told, o)
  PROVE  JobOK(w, a, more, o)
  BY DEF JobOK, WantOK, HandOK, CloneOK, PlaceOK, AtCommit, InHand

\* A resolution that starts has everything before it.
LEMMA FreshOK ==
  ASSUME NEW m \in Modes, NEW a, NEW told, NEW o
  PROVE  Fresh(m) \in Job /\ JobOK(Fresh(m), a, told, o) /\ Fresh(m).pc = "read"
<1>1. Fresh(m) \in Job
  BY DEF Fresh, Job, Pcs, Modes, Hash, Entries
<1>2. /\ Fresh(m).pc = "read" /\ Fresh(m).res = "none" /\ Fresh(m).how = "locked"
      /\ ~Fresh(m).held
  BY DEF Fresh
<1> QED
  BY <1>1, <1>2 DEF JobOK, PlaceOK, WantOK, HandOK, CloneOK, AtCommit, Locked, InHand

\* A process that starts has seen the head; one that goes on had seen it.
LEMMA StartStep ==
  ASSUME PackageInv, NEW t \in Threads, NEW m \in Modes, Exec(t, m) \/ Again(t, m)
  PROVE  PackageInv'
<1> DEFINE P == ProcOf(t)
<1>1. /\ th[t].pc = "idle" /\ th' = [th EXCEPT ![t] = Fresh(m)]
      /\ UNCHANGED <<at, ino, lastHead, lockFile, head, older>>
      /\ \/ /\ Idle(P) /\ memo' = [memo EXCEPT ![P] = None] /\ seen' = [seen EXCEPT ![P] = {head}]
         \/ seen[P] # {} /\ UNCHANGED <<memo, seen>>
  BY DEF Exec, Again, Go, cache, world
<1>2. Types /\ EntriesOK /\ LocksOK /\ HeadsOK /\ \A u \in Threads : ThreadOK(u)
  BY DEF PackageInv
<1>3. /\ th'[t] = Fresh(m) /\ th' \in [Threads -> Job]
      /\ \A u \in Threads \ {t} : th'[u] = th[u]
  BY <1>1, <1>2, FreshOK DEF Types
<1>4. Types' /\ EntriesOK'
  <2>1. memo' \in [Procs -> Answers \cup {None}] /\ seen' \in [Procs -> SUBSET Commits]
    BY <1>1, <1>2, ProcIs DEF Types
  <2> QED
    BY <1>1, <1>2, <1>3, <2>1 DEF Types, EntriesOK
<1>5. LocksOK'
  <2>1. \A u \in Threads : th'[u].pc \in Locked => u # t /\ th'[u] = th[u]
    BY <1>3, FreshOK DEF Locked
  <2> QED
    BY <1>2, <2>1 DEF LocksOK
<1>6. HeadsOK'
  <2>1. P \in Procs /\ seen'[P] # {}
    BY <1>1, <1>2, ProcIs DEF Types
  <2>2. \A Q \in Procs : seen'[Q] # {} => head' \in seen'[Q]
    BY <1>1, <1>2 DEF Types, HeadsOK
  <2>3. \A Q \in Procs : memo'[Q] \in {None, "unreachable", "missing"} \cup seen'[Q]
    BY <1>1, <1>2 DEF Types, HeadsOK
  <2>4. ASSUME NEW u \in Threads, th'[u].pc # "idle"
        PROVE  seen'[ProcOf(u)] # {}
    <3>1. CASE u = t
      BY <2>1, <3>1
    <3>2. CASE u # t
      <4>1. seen[ProcOf(u)] # {} /\ ProcOf(u) \in Procs
        BY <1>2, <1>3, <2>4, <3>2, ProcIs DEF HeadsOK
      <4> QED
        BY <1>1, <1>2, <4>1 DEF Types
    <3> QED
      BY <3>1, <3>2
  <2> QED
    BY <2>2, <2>3, <2>4 DEF HeadsOK, ProcOf
<1>7. ASSUME NEW u \in Threads
      PROVE  ThreadOK(u)'
  <2>1. CASE u = t
    BY <1>3, <2>1, FreshOK DEF ThreadOK, ProcOf
  <2>2. CASE u # t
    <3>1. JobOK(th[u], at, seen[ProcOf(u)], older) /\ th'[u] = th[u]
      BY <1>2, <1>3, <2>2 DEF ThreadOK
    <3>2. seen'[ProcOf(u)] = seen[ProcOf(u)] \/ th[u].pc = "idle"
      BY <1>1, <1>2, ProcIs DEF Types, Idle
    <3>3. JobOK(th[u], at, seen'[ProcOf(u)], older)
      BY <3>1, <3>2, IdleKept
    <3> QED
      BY <1>1, <3>1, <3>3 DEF ThreadOK, ProcOf
  <2> QED
    BY <2>1, <2>2
<1> QED
  BY <1>4, <1>5, <1>6, <1>7 DEF PackageInv

\* A killed process leaves no lock and no thread.
LEMMA KillStep ==
  ASSUME PackageInv, NEW P \in Procs, Kill(P)
  PROVE  PackageInv'
<1>1. /\ th' = [t \in Threads |-> IF t \in P /\ th[t].pc # "idle"
                                    THEN Ended(th[t], "killed") ELSE th[t]]
      /\ memo' = [memo EXCEPT ![P] = None] /\ seen' = [seen EXCEPT ![P] = {}]
      /\ UNCHANGED <<at, ino, lastHead, lockFile, head, older>>
  BY DEF Kill, cache
<1>2. Types /\ EntriesOK /\ LocksOK /\ HeadsOK /\ \A u \in Threads : ThreadOK(u)
  BY DEF PackageInv
<1>3. ASSUME NEW u \in Threads
      PROVE  /\ th'[u] \in Job
             /\ th'[u] = th[u] \/ (th'[u].pc = "idle" /\ th'[u] = Ended(th[u], "killed"))
             /\ u \in P => th'[u].pc = "idle"
  <2>1. th[u] \in Job
    BY <1>2 DEF Types
  <2> QED
    BY <1>1, <2>1, EndedBad
<1>4. Types' /\ EntriesOK'
  <2>1. memo' \in [Procs -> Answers \cup {None}] /\ seen' \in [Procs -> SUBSET Commits]
    BY <1>1, <1>2 DEF Types
  <2>2. th' \in [Threads -> Job]
    BY <1>1, <1>3
  <2> QED
    BY <1>1, <1>2, <2>1, <2>2 DEF Types, EntriesOK
<1>5. LocksOK'
  <2>1. \A u \in Threads : th'[u].pc \in Locked => th'[u] = th[u]
    BY <1>3 DEF Locked
  <2> QED
    BY <1>2, <2>1 DEF LocksOK
<1>6. \A u \in Threads : ProcOf(u) = P <=> u \in P
  BY ProcIs
<1>7. HeadsOK'
  <2>1. \A Q \in Procs : seen'[Q] # {} => head' \in seen'[Q]
    BY <1>1, <1>2 DEF Types, HeadsOK
  <2>2. \A Q \in Procs : memo'[Q] \in {None, "unreachable", "missing"} \cup seen'[Q]
    BY <1>1, <1>2 DEF Types, HeadsOK
  <2>3. ASSUME NEW u \in Threads, th'[u].pc # "idle"
        PROVE  seen'[ProcOf(u)] # {}
    <3>1. u \notin P /\ th'[u] = th[u] /\ ProcOf(u) # P /\ ProcOf(u) \in Procs
      BY <1>3, <1>6, <2>3, ProcIs
    <3>2. seen[ProcOf(u)] # {}
      BY <1>2, <2>3, <3>1 DEF HeadsOK
    <3> QED
      BY <1>1, <1>2, <3>1, <3>2 DEF Types
  <2> QED
    BY <2>1, <2>2, <2>3 DEF HeadsOK, ProcOf
<1>8. ASSUME NEW u \in Threads
      PROVE  ThreadOK(u)'
  <2>1. CASE th'[u] = th[u]
    <3>1. JobOK(th[u], at, seen[ProcOf(u)], older)
      BY <1>2 DEF ThreadOK
    <3>2. seen'[ProcOf(u)] = seen[ProcOf(u)] \/ th[u].pc = "idle"
      BY <1>1, <1>2, <1>3, <1>6, <2>1, ProcIs DEF Types
    <3>3. JobOK(th[u], at, seen'[ProcOf(u)], older)
      BY <3>1, <3>2, IdleKept
    <3> QED
      BY <1>1, <2>1, <3>3 DEF ThreadOK, ProcOf
  <2>2. CASE th'[u] = Ended(th[u], "killed")
    <3>1. JobOK(th'[u], at', seen'[ProcOf(u)], older')
      BY <1>2, <2>2, EndedBad DEF Types
    <3> QED
      BY <3>1 DEF ThreadOK, ProcOf
  <2> QED
    BY <1>3, <2>1, <2>2
<1> QED
  BY <1>4, <1>5, <1>7, <1>8 DEF PackageInv

\* The branch moves, or an older almide fills an entry: no thread moves, and a
\* running process has seen every head there is to fill the ref's entry with.
LEMMA WorldStep ==
  ASSUME PackageInv, (\E c \in Commits : MoveHead(c)) \/ (\E e \in Entries : OlderFill(e))
  PROVE  PackageInv'
<1>1. Types /\ EntriesOK /\ LocksOK /\ HeadsOK /\ \A u \in Threads : ThreadOK(u)
  BY DEF PackageInv
<1>2. UNCHANGED <<th, ino, lastHead, lockFile, memo>> /\ older \subseteq older'
  BY DEF MoveHead, OlderFill, cache
<1>3. /\ head' \in Commits /\ seen' \in [Procs -> SUBSET Commits]
      /\ \A P \in Procs : seen[P] \subseteq seen'[P]
      /\ \A P \in Procs : seen'[P] # {} => seen[P] # {} /\ head' \in seen'[P]
  <2>1. CASE \E c \in Commits : MoveHead(c)
    <3>1. PICK c \in Commits : MoveHead(c)
      BY <2>1
    <3>2. head' = c /\ seen' = [P \in Procs |-> IF seen[P] = {} THEN {} ELSE seen[P] \cup {c}]
      BY <3>1 DEF MoveHead
    <3> QED
      BY <1>1, <3>2 DEF Types
  <2>2. CASE \E e \in Entries : OlderFill(e)
    <3>1. UNCHANGED <<head, seen>>
      BY <2>2 DEF OlderFill
    <3> QED
      BY <1>1, <3>1 DEF Types, HeadsOK
  <2> QED
    BY <2>1, <2>2
<1>4. /\ at' \in [Entries -> Hash] /\ older' \subseteq Entries
      /\ \A e \in Entries : at'[e] = at[e] \/ (e \in older' /\ at[e] = None
                                                /\ at'[e] = IF e = RefDir THEN head ELSE e)
      /\ at' = at \/ head' = head
  <2>1. CASE \E c \in Commits : MoveHead(c)
    BY <1>1, <2>1 DEF MoveHead, cache, Types
  <2>2. CASE \E e \in Entries : OlderFill(e)
    <3>1. PICK e \in Entries : OlderFill(e)
      BY <2>2
    <3>2. /\ at[e] = None /\ at' = [at EXCEPT ![e] = IF e = RefDir THEN head ELSE e]
          /\ older' = older \cup {e} /\ head' = head
      BY <3>1 DEF OlderFill
    <3>3. (IF e = RefDir THEN head ELSE e) \in Hash
      BY <1>1 DEF Types, Entries, Hash
    <3> QED
      BY <1>1, <3>2, <3>3 DEF Types
  <2> QED
    BY <2>1, <2>2
<1>5. Types'
  BY <1>1, <1>2, <1>3, <1>4 DEF Types
<1>6. EntriesOK'
  <2> SUFFICES ASSUME NEW c \in Commits PROVE at'[c] \in {None, c}
    BY DEF EntriesOK
  <2>1. c \in Entries /\ c # RefDir
    BY PackageAssumption DEF Entries
  <2> QED
    BY <1>1, <1>4, <2>1 DEF EntriesOK
<1>7. LocksOK'
  BY <1>1, <1>2 DEF LocksOK
<1>8. HeadsOK'
  <2>1. ASSUME NEW u \in Threads, th'[u].pc # "idle"
        PROVE  seen'[ProcOf(u)] # {}
    BY <1>1, <1>2, <1>3, <2>1, ProcIs DEF HeadsOK
  <2>2. \A P \in Procs : memo'[P] \in {None, "unreachable", "missing"} \cup seen'[P]
    BY <1>1, <1>2, <1>3 DEF HeadsOK
  <2> QED
    BY <1>3, <2>1, <2>2 DEF HeadsOK, ProcOf
<1>9. ASSUME NEW u \in Threads
      PROVE  ThreadOK(u)'
  <2> DEFINE w == th[u]
             told == seen'[ProcOf(u)]
  <2>1. w \in Job /\ JobOK(w, at, seen[ProcOf(u)], older)
    BY <1>1 DEF Types, ThreadOK
  <2>2. seen[ProcOf(u)] \subseteq told
    BY <1>3, ProcIs
  <2>3. \A c \in Commits : at[c] = c => at'[c] = c
    BY <1>4, PackageAssumption DEF Entries
  <2>4. w.pc \in {"shallow", "full", "rename"} =>
           at'[w.ent] \in {at[w.ent], None} \/ w.ent \in older'
    BY <1>4, <2>1 DEF Job
  <2>5. CASE w.pc # "idle"
    <3>1. head' \in told
      BY <1>3, <1>8, <2>5, <1>2, ProcIs DEF HeadsOK, ProcOf
    <3>2. at'[RefDir] \in {at[RefDir], None} \/ (RefDir \in older' /\ at'[RefDir] = head' /\ head' \in told)
      BY <1>4, <3>1 DEF Entries
    <3>3. JobOK(w, at', told, older')
      BY <1>1, <1>2, <1>4, <2>1, <2>2, <2>3, <2>4, <3>2, OthersKept DEF Types
    <3> QED
      BY <1>2, <3>3 DEF ThreadOK, ProcOf
  <2>6. CASE w.pc = "idle"
    <3>1. JobOK(w, at', told, older')
      BY <1>2, <2>1, <2>6
      DEF JobOK, PlaceOK, WantOK, HandOK, CloneOK, AtCommit, InHand, Locked
    <3> QED
      BY <1>2, <3>1 DEF ThreadOK, ProcOf
  <2> QED
    BY <2>5, <2>6
<1> QED
  BY <1>5, <1>6, <1>7, <1>8, <1>9 DEF PackageInv
-----------------------------------------------------------------------------
(* The invariant *)

\* The invariant holds at the start ...
LEMMA InitInv == Init => PackageInv
<1> SUFFICES ASSUME Init PROVE PackageInv
  OBVIOUS
<1> DEFINE blank == [Fresh("build") EXCEPT !.pc = "idle"]
<1>1. blank \in Job /\ blank.pc = "idle" /\ blank.res = "none" /\ ~blank.held
  BY DEF Fresh, Job, Pcs, Modes, Hash, Entries
<1> HIDE DEF blank
<1>2. th = [t \in Threads |-> blank]
  BY DEF Init, blank
<1>3. /\ head \in Commits /\ lastHead \in Hash /\ lockFile \in Hash /\ at \in [Entries -> Hash]
  BY PackageAssumption DEF Init, Hash, Entries
<1>4. /\ memo \in [Procs -> Answers \cup {None}] /\ seen \in [Procs -> SUBSET Commits]
      /\ \A P \in Procs : memo[P] = None /\ seen[P] = {}
  BY DEF Init
<1>5. Types
  BY <1>1, <1>2, <1>3, <1>4 DEF Init, Types
<1>6. EntriesOK
  BY DEF Init, EntriesOK
<1>7. LocksOK /\ HeadsOK
  BY <1>1, <1>2, <1>4 DEF LocksOK, HeadsOK, Locked
<1>8. \A t \in Threads : ThreadOK(t)
  BY <1>1, <1>2 DEF ThreadOK, JobOK, PlaceOK, WantOK, HandOK, CloneOK, AtCommit, InHand, Locked
<1> QED
  BY <1>5, <1>6, <1>7, <1>8 DEF PackageInv

\* ... and every step keeps it.
LEMMA NextInv == PackageInv /\ [Next]_vars => PackageInv'
<1> SUFFICES ASSUME PackageInv, [Next]_vars PROVE PackageInv'
  OBVIOUS
<1>1. CASE UNCHANGED vars
  <2>1. UNCHANGED <<head, at, ino, lastHead, lockFile, memo, th, seen, older>>
    BY <1>1 DEF vars, cache, world
  <2> QED
    BY <2>1 DEF PackageInv, Types, EntriesOK, LocksOK, HeadsOK, ThreadOK, ProcOf
<1>2. CASE (\E t \in Test : Exec(t, "build") \/ Again(t, "build"))
             \/ (\E t \in Solo, m \in Modes : Exec(t, m) \/ Again(t, m))
  BY <1>2, StartStep DEF Threads, Modes
<1>3. ASSUME NEW t \in Threads, ThreadStep(t)
      PROVE  PackageInv'
  <2>1. CASE ReadLock(t) \/ AskMemo(t) \/ (\E a \in Told : AskOnce(t, a) \/ AskUpdate(t, a))
    BY <2>1, ReadLockStep, AskMemoStep, AskOnceStep, AskUpdateStep
  <2>2. CASE AtRef(t) \/ Fallback(t) \/ Look(t) \/ LookRef(t) \/ Populate(t)
    BY <2>2, AtRefStep, FallbackStep, LookStep, LookRefStep, PopulateStep
  <2>3. CASE Open(t) \/ Lock(t) \/ Recheck(t)
    BY <2>3, OpenStep, LockStep, RecheckStep
  <2>4. CASE Shallow(t) \/ ShallowFails(t) \/ Full(t) \/ FullFails(t) \/ Rename(t)
    BY <2>4, CloneStep, FullFailsStep, RenameStep
  <2>5. CASE TruncHead(t) \/ NoteHead(t) \/ Use(t)
    BY <2>5, NoteStep, UseStep
  <2>6. CASE Save(t) \/ Drop(t) \/ Aside(t) \/ Put(t)
    BY <2>6, PinStep, DropStep, AsideStep
  <2> QED
    BY <1>3, <2>1, <2>2, <2>3, <2>4, <2>5, <2>6 DEF ThreadStep
<1>4. CASE \E P \in Procs : Kill(P)
  BY <1>4, KillStep
<1>5. CASE (\E c \in Commits : MoveHead(c)) \/ (\E e \in Entries : OlderFill(e))
  BY <1>5, WorldStep
<1> QED
  BY <1>1, <1>2, <1>3, <1>4, <1>5 DEF Next

\* The invariant holds, whatever the threads, the branch, the network and the
\* older almides do.
THEOREM PackageInvariant == Spec => []PackageInv
  BY InitInv, NextInv, PTL DEF Spec
-----------------------------------------------------------------------------
(* What follows from it *)

\* The entry named after a commit holds that commit, for any number of callers
\* and moves of the branch: the name alone can be trusted.
THEOREM EntriesAreKeyedRight == Spec => []KeyedRight
<1>1. PackageInv => KeyedRight
  BY DEF PackageInv, Types, EntriesOK, KeyedRight, TypeOK, Job, Hash
<1> QED
  BY <1>1, PackageInvariant, PTL

\* One caller at a time clones an entry, and none clones what is there.
THEOREM CallersShareOneClone == Spec => []OneClone
<1>1. PackageInv => OneClone
  <2> SUFFICES ASSUME PackageInv, NEW t \in Threads, Cloning(t)
               PROVE  /\ \A u \in Threads \ {t} : Cloning(u) => th[u].ent # th[t].ent
                      /\ at[th[t].ent] = None \/ th[t].ent \in older
    BY DEF OneClone
  <2>1. \A u \in Threads : Cloning(u) => th[u].pc \in Locked
    BY DEF Cloning, Locked
  <2>2. at[th[t].ent] = None \/ th[t].ent \in older
    BY OfThread DEF CloneOK, Cloning
  <2> QED
    BY <2>1, <2>2 DEF PackageInv, LocksOK
<1> QED
  BY <1>1, PackageInvariant, PTL

\* A resolution that read a pin and succeeded built the pinned commit, unless
\* the ref's directory was taken away from under it.
THEOREM PinnedIsBuilt == Spec => []PinBuilt
<1>1. PackageInv => PinBuilt
  BY OfThread DEF PinBuilt, HandOK
<1> QED
  BY <1>1, PackageInvariant, PTL

\* A build that found no pin writes only a commit the branch had while its
\* process ran.
THEOREM NewPinIsFresh == Spec => []PinFresh
<1>1. PackageInv => PinFresh
  BY OfThread DEF PinFresh, HandOK
<1> QED
  BY <1>1, PackageInvariant, PTL

\* An entry named after a commit, once it is there, is neither removed nor
\* rewritten: what a resolution was handed stays whole while the compiler
\* reads it, after the lock is dropped, whatever other resolutions, updates
\* and older almides do (the rename of populate_cache_dir never replaces an
\* entry, and remove_cache_dir is for the ref's only).
CommitEntriesStay == [][\A c \in Commits : at[c] # None => at'[c] = at[c]]_vars

\* No command but `clean` takes a commit's checkout away.
THEOREM CommitEntriesAreKept == Spec => CommitEntriesStay
<1>1. ASSUME PackageInv, Next PROVE \A c \in Commits : at[c] # None => at'[c] = at[c]
  <2>1. at \in [Entries -> Hash] /\ Commits \subseteq Entries /\ RefDir \notin Commits
    BY <1>1, PackageAssumption DEF PackageInv, Types, Entries
  <2>2. CASE \E t \in Threads : Rename(t)
    <3>1. PICK t \in Threads : at' = [at EXCEPT ![th[t].ent] = IF @ = None THEN th[t].got ELSE @]
      BY <2>2 DEF Rename
    <3> QED BY <2>1, <3>1
  <2>3. CASE \E t \in Threads : Aside(t)
    BY <2>1, <2>3 DEF Aside
  <2>4. CASE \E e \in Entries : OlderFill(e)
    BY <2>1, <2>4 DEF OlderFill
  <2>5. CASE at' = at
    BY <2>5
  <2>6. ASSUME NEW t \in Threads, ThreadStep(t) PROVE Rename(t) \/ Aside(t) \/ at' = at
    BY <2>6 DEF ThreadStep, ReadLock, AskMemo, AskOnce, AskUpdate, AtRef, Fallback, Look, LookRef,
       Populate, Open, Lock, Recheck, Shallow, ShallowFails, Full, FullFails, TruncHead, NoteHead,
       Use, Save, Drop, Put, cache
  <2>7. ASSUME ~\E t \in Threads : ThreadStep(t), ~\E e \in Entries : OlderFill(e) PROVE at' = at
    BY <1>1, <2>7 DEF Next, Exec, Again, Kill, MoveHead, cache
  <2> QED BY <2>2, <2>3, <2>4, <2>5, <2>6, <2>7
<1>2. ASSUME PackageInv, [Next]_vars
      PROVE  [\A c \in Commits : at[c] # None => at'[c] = at[c]]_vars
  BY <1>1, <1>2
<1> QED BY <1>2, PackageInvariant, PTL DEF Spec, CommitEntriesStay
=============================================================================
