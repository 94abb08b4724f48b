---------------------------- MODULE HostFanProofs ----------------------------
(***************************************************************************)
(* Machine-checked proofs about HostFan, for every number of elements and  *)
(* workers, every cap and every reset size: the budget is exact, the run's *)
(* own instance is refused memory only at the cap, a served offer is       *)
(* complete, and the last part finds the deal unshared.                    *)
(***************************************************************************)
EXTENDS HostFan, FiniteSetTheorems, SequenceTheorems, WellFoundedInduction, TLAPS

\* What a meter may hold; None where there is no worker.
Sizes == Nat \cup {None}
HandPcs == {"absent", "wait", "start", "arm", "armed", "check", "claim", "call", "grown",
            "loop", "fail", "end", "send", "back"}

\* Every variable that a proof needs has its type.
Types ==
  /\ gpc \in {"run", "inline", "await", "dispatch", "collect", "inner", "oom"}
  /\ guest \in Nat /\ used \in Int /\ sent \in Nat /\ senders \in Int
  /\ pool \in Seq(Sizes) /\ taken \in Seq(Sizes) /\ refused \in Seq(Sizes)
  /\ crew \in 0..MaxWorkers
  /\ deal \in [jobs : Nat, next : Nat, block : Nat \ {0}, failed : BOOLEAN, refs : Int]
  /\ parts \in Seq([worker : Sizes, done : SUBSET Elems])
  /\ chan \in [Hands -> Seq(Sizes)]
  /\ hpc \in [Threads -> HandPcs]
  /\ mem \in [Threads -> Sizes]
  /\ at \in [Threads -> Nat]
  /\ done \in [Threads -> SUBSET Elems]

\* Hand h has a job, in its channel or at work.
Job(h) == chan[h] # <<>> \/ hpc[h] \notin {"absent", "wait"}

\* The hands that have a sender of the parts channel, and those of them that
\* have the deal.
Sending == {h \in Hands : Job(h)}
Holding == {h \in Sending : hpc[h] \notin {"send", "back"}}

\* The jobs that run_all itself has: not dispatched yet, or refused.
Pending == IF gpc = "dispatch" THEN deal.jobs - sent + Len(refused) ELSE 0

\* Which hands there are and which of them may have a job.
CrewOK ==
  /\ \A h \in Hands : h <= crew <=> hpc[h] # "absent"
  /\ \A h \in Hands : chan[h] # <<>> => hpc[h] = "wait" /\ Len(chan[h]) = 1
  /\ \A h \in Hands : Job(h) => gpc \in {"dispatch", "collect"}
  /\ \A h \in Hands : Job(h) /\ gpc = "dispatch" => h <= sent
  /\ hpc[0] # "absent" <=> gpc = "await"
  /\ hpc[0] \notin {"wait", "send", "back"}

\* What run_all has of an offer, by where it is.
JobsOK ==
  /\ gpc \notin {"run", "oom"} => deal.jobs \in 1..MaxWorkers
  /\ gpc = "dispatch" => sent <= deal.jobs /\ Len(taken) <= deal.jobs - sent
  /\ gpc = "inline" => Len(taken) <= 1
  /\ gpc \notin {"dispatch", "inline"} => taken = <<>>
  /\ gpc \in {"run", "oom", "inline", "await"} => parts = <<>>

\* The senders and the deal's handles, counted.
CountOK ==
  /\ senders = Pending + Cardinality(Sending)
  /\ deal.refs = (IF gpc \in {"run", "oom"} THEN 0 ELSE 1) + Pending + Cardinality(Holding)
  /\ senders <= MaxWorkers /\ deal.refs <= MaxWorkers + 1

\* Which threads have a worker.
WorkerOK ==
  \A h \in Threads :
    /\ hpc[h] \in {"absent", "wait", "back"} => mem[h] = None
    /\ hpc[h] \in {"arm", "armed", "check", "claim", "call", "grown", "loop"} => mem[h] # None
    /\ hpc[h] = "grown" => mem[h] # 0

HostInv == Types /\ CrewOK /\ JobsOK /\ CountOK /\ WorkerOK

\* Budget.used is the sum BudgetExact speaks of.
InThreads == Total([h \in 1..(MaxWorkers + 1) |-> mem[h - 1]])
InChans == Total([h \in Hands |-> Total(chan[h])])
Sum ==
  guest + Total(pool) + Total(taken) + Total(Workers(parts))
    + (IF gpc = "dispatch" THEN Total(refused) ELSE 0) + InThreads + InChans

BudgetInv == used = Sum /\ used <= Cap /\ AloneReachesCap

\* A thread at its end without having failed has met the end of the list, and
\* so has every part.
EndOK ==
  /\ \A h \in Threads : hpc[h] \in {"end", "send"} =>
       deal.failed \/ (mem[h] # None /\ deal.next >= NElems)
  /\ \A p \in DOMAIN parts :
       deal.failed \/ (parts[p].worker # None /\ deal.next >= NElems)
  /\ gpc = "inner" => deal.failed \/ parts # <<>>

\* A claimed element is in a part, with a thread, or in a block being called.
With(h, i) ==
  \/ /\ hpc[h] \in {"check", "claim", "call", "grown", "loop", "fail", "end", "send"}
     /\ i \in done[h]
  \/ /\ hpc[h] \in {"call", "grown", "loop", "fail"}
     /\ i \in at[h]..(BlockEnd(h) - 1)
Covered(i) ==
  \/ \E p \in DOMAIN parts : i \in parts[p].done
  \/ \E h \in Threads : With(h, i)

CoverOK ==
  gpc \notin {"run", "oom"} =>
    deal.failed \/ \A i \in Elems : i < deal.next => Covered(i)

CoverInv == EndOK /\ CoverOK /\ ServedComplete
-----------------------------------------------------------------------------
(* Sums *)

\* The units held are those of each store up to its size.
LEMMA UnitsAre ==
  ASSUME NEW D, NEW s \in [D -> Sizes]
  PROVE  /\ Units(s) = {u \in D \X Nat : u[2] \in 1..s[u[1]]}
         /\ \A i \in D : \A k : <<i, k>> \in Units(s) <=> k \in 1..s[i]
<1>1. DOMAIN s = D
  OBVIOUS
<1>2. ASSUME NEW u PROVE u \in Units(s) <=> u \in {v \in D \X Nat : v[2] \in 1..s[v[1]]}
  <2>1. ASSUME u \in Units(s) PROVE u \in D \X Nat /\ u[2] \in 1..s[u[1]]
    <3>1. PICK i \in D : u \in {i} \X (1..s[i])
      BY <1>1, <2>1 DEF Units
    <3>2. s[i] \in Int
      BY DEF Sizes, None
    <3> QED BY <3>1, <3>2
  <2>2. ASSUME u \in D \X Nat, u[2] \in 1..s[u[1]] PROVE u \in Units(s)
    <3>1. PICK i \in D, k \in Nat : u = <<i, k>>
      BY <2>2
    <3>2. u \in {i} \X (1..s[i])
      BY <2>2, <3>1
    <3> QED BY <1>1, <3>2 DEF Units
  <2> QED BY <2>1, <2>2
<1>3. Units(s) = {u \in D \X Nat : u[2] \in 1..s[u[1]]}
  BY <1>2
<1>4. ASSUME NEW i \in D, NEW k PROVE <<i, k>> \in Units(s) <=> k \in 1..s[i]
  <2>1. s[i] \in Int
    BY DEF Sizes, None
  <2>2. k \in 1..s[i] => k \in Nat
    BY <2>1
  <2> QED BY <1>3, <2>2
<1> QED BY <1>3, <1>4

\* The same, member by member.
LEMMA UnitIn ==
  ASSUME NEW D, NEW s \in [D -> Sizes]
  PROVE  \A u : u \in Units(s) <=> u \in D \X Nat /\ u[2] \in 1..s[u[1]]
  BY UnitsAre

\* Finitely many stores hold finitely many units.
LEMMA UnitsFinite ==
  ASSUME NEW D, IsFiniteSet(D), NEW s \in [D -> Sizes]
  PROVE  IsFiniteSet(Units(s)) /\ Total(s) \in Nat
<1> DEFINE Cols == {{i} \X (1..s[i]) : i \in D}
           f == [i \in D |-> {i} \X (1..s[i])]
<1>1. f \in Surjection(D, Cols)
  BY DEF Surjection
<1>2. IsFiniteSet(Cols)
  BY <1>1, FS_Surjection
<1>3. ASSUME NEW c \in Cols PROVE IsFiniteSet(c)
  <2>1. PICK i \in D : c = {i} \X (1..s[i])
    OBVIOUS
  <2>2. s[i] \in Int
    BY DEF Sizes, None
  <2>3. IsFiniteSet({i})
    BY FS_Singleton
  <2>4. IsFiniteSet(1..s[i])
    BY <2>2, FS_Interval
  <2> QED BY <2>1, <2>3, <2>4, FS_Product
<1>4. Units(s) = UNION Cols
  BY DEF Units
<1>5. IsFiniteSet(Units(s))
  BY <1>2, <1>3, <1>4, FS_UNION
<1> QED BY <1>5, FS_CardinalityType DEF Total

\* One store set apart: the total is what the others hold, and what it holds.
LEMMA TotalAt ==
  ASSUME NEW D, IsFiniteSet(D), NEW s \in [D -> Sizes], NEW i \in D
  PROVE  Total(s) = Total([j \in D \ {i} |-> s[j]]) + Held(s[i])
<1> DEFINE r == [j \in D \ {i} |-> s[j]]
           col == {i} \X (1..s[i])
<1>1. r \in [D \ {i} -> Sizes] /\ IsFiniteSet(D \ {i})
  BY FS_RemoveElement
<1>2. IsFiniteSet(Units(r)) /\ Total(r) \in Nat
  BY <1>1, UnitsFinite
<1>3. s[i] \in Int /\ (s[i] # None => s[i] \in Nat)
  BY DEF Sizes, None
<1>4. IsFiniteSet({i}) /\ Cardinality({i}) = 1
  BY FS_Singleton
<1>5. /\ IsFiniteSet(1..s[i])
      /\ Cardinality(1..s[i]) = Held(s[i]) /\ Held(s[i]) \in Nat
  BY <1>3, FS_Interval DEF Held, None
<1>6. IsFiniteSet(col) /\ Cardinality(col) = Held(s[i])
  <2>1. IsFiniteSet(col) /\ Cardinality(col) = Cardinality({i}) * Cardinality(1..s[i])
    BY <1>4, <1>5, FS_Product
  <2> QED BY <1>4, <1>5, <2>1
<1>7. Units(s) = Units(r) \cup col
  <2>1. ASSUME NEW u \in Units(s) PROVE u \in Units(r) \cup col
    <3>1. u \in D \X Nat /\ u[2] \in 1..s[u[1]]
      BY UnitsAre
    <3>2. PICK j \in D, k \in Nat : u = <<j, k>>
      BY <3>1
    <3>3. CASE j = i
      BY <3>1, <3>2, <3>3
    <3>4. CASE j # i
      BY <1>1, <3>1, <3>2, <3>4, UnitsAre
    <3> QED BY <3>3, <3>4
  <2>2. ASSUME NEW u \in Units(r) PROVE u \in Units(s)
    <3>1. u \in (D \ {i}) \X Nat /\ u[2] \in 1..r[u[1]]
      BY <1>1, UnitsAre
    <3>2. u \in D \X Nat /\ u[2] \in 1..s[u[1]]
      BY <3>1
    <3> QED BY <3>2, UnitsAre
  <2>3. ASSUME NEW u \in col PROVE u \in Units(s)
    <3>1. PICK k \in 1..s[i] : u = <<i, k>>
      OBVIOUS
    <3> QED BY <3>1, UnitsAre
  <2> QED BY <2>1, <2>2, <2>3
<1>8. Units(r) \cap col = {}
  <2>1. ASSUME NEW u \in Units(r) PROVE u \notin col
    BY <1>1, UnitsAre
  <2> QED BY <2>1
<1>9. Cardinality(Units(s)) = Cardinality(Units(r)) + Cardinality(col)
  <2> HIDE DEF r, col
  <2>1. Cardinality(Units(r) \cup col)
          = Cardinality(Units(r)) + Cardinality(col) - Cardinality(Units(r) \cap col)
    BY <1>2, <1>6, FS_Union
  <2>2. Cardinality(Units(r)) \in Nat /\ Cardinality(col) \in Nat
    BY <1>2, <1>6, FS_CardinalityType
  <2>3. Cardinality({}) = 0
    BY FS_EmptySet
  <2> QED BY <1>7, <1>8, <2>1, <2>2, <2>3
<1> QED BY <1>6, <1>9 DEF Total

\* No store, no unit.
LEMMA TotalNone ==
  ASSUME NEW D, NEW s \in [D -> Sizes], \A i \in D : s[i] = None
  PROVE  Total(s) = 0
<1>1. ASSUME NEW u \in Units(s) PROVE FALSE
  <2>1. u \in D \X Nat /\ u[2] \in 1..s[u[1]]
    BY UnitsAre
  <2>2. u[1] \in D /\ s[u[1]] = None
    BY <2>1
  <2> QED BY <2>1, <2>2 DEF None
<1> QED BY <1>1, FS_EmptySet DEF Total

\* Two collections that differ in one store differ by what it holds.
LEMMA TotalChange ==
  ASSUME NEW D, IsFiniteSet(D), NEW s \in [D -> Sizes], NEW t \in [D -> Sizes],
         NEW i \in D, \A j \in D \ {i} : t[j] = s[j]
  PROVE  Total(t) = Total(s) - Held(s[i]) + Held(t[i])
<1>1. [j \in D \ {i} |-> s[j]] = [j \in D \ {i} |-> t[j]]
  OBVIOUS
<1>2. [j \in D \ {i} |-> s[j]] \in [D \ {i} -> Sizes] /\ IsFiniteSet(D \ {i})
  BY FS_RemoveElement
<1>3. Total([j \in D \ {i} |-> s[j]]) \in Nat
  BY <1>2, UnitsFinite
<1>4. Held(s[i]) \in Nat /\ Held(t[i]) \in Nat
  BY DEF Held, Sizes, None
<1>5. Total(s) = Total([j \in D \ {i} |-> s[j]]) + Held(s[i])
  BY TotalAt
<1>6. Total(t) = Total([j \in D \ {i} |-> s[j]]) + Held(t[i])
  BY <1>1, TotalAt
<1> QED BY <1>3, <1>4, <1>5, <1>6

\* One more store in a sequence.
LEMMA TotalAppend ==
  ASSUME NEW s \in Seq(Sizes), NEW m \in Sizes
  PROVE  Total(Append(s, m)) = Total(s) + Held(m)
<1> DEFINE n == Len(s) + 1
           t == Append(s, m)
<1>0. t \in Seq(Sizes) /\ Len(t) = n
  BY AppendProperties
<1>1. t \in [1..n -> Sizes] /\ n \in 1..n /\ t[n] = m /\ n \in Nat
  <2>1. n \in Nat /\ n \in 1..n
    OBVIOUS
  <2>2. t[n] = m
    BY AppendProperties
  <2> HIDE DEF n, t
  <2> QED BY <1>0, <2>1, <2>2
<1>2. Total(t) = Total([j \in (1..n) \ {n} |-> t[j]]) + Held(t[n])
  <2> HIDE DEF n, t
  <2>1. IsFiniteSet(1..n)
    BY <1>1, FS_Interval
  <2> QED BY <1>1, <2>1, TotalAt
<1>3. s \in [1..Len(s) -> Sizes] /\ (1..n) \ {n} = 1..Len(s)
  OBVIOUS
<1>4. \A j \in 1..Len(s) : t[j] = s[j]
  OBVIOUS
<1>5. [j \in (1..n) \ {n} |-> t[j]] = s
  <2> HIDE DEF n, t
  <2> QED BY <1>3, <1>4
<1> QED BY <1>1, <1>2, <1>5

\* The last store of a sequence set apart.
LEMMA TotalLast ==
  ASSUME NEW s \in Seq(Sizes), s # <<>>
  PROVE  Total(s) = Total(SubSeq(s, 1, Len(s) - 1)) + Held(s[Len(s)])
<1> DEFINE r == SubSeq(s, 1, Len(s) - 1)
<1>1. r \in Seq(Sizes) /\ s[Len(s)] \in Sizes
  OBVIOUS
<1>2. s = Append(r, s[Len(s)])
  OBVIOUS
<1> HIDE DEF r
<1>3. Total(Append(r, s[Len(s)])) = Total(r) + Held(s[Len(s)])
  BY <1>1, TotalAppend
<1> QED BY <1>2, <1>3 DEF r

\* The stores of a sequence, as a function.
LEMMA SeqTotal ==
  ASSUME NEW s \in Seq(Sizes)
  PROVE  /\ s \in [1..Len(s) -> Sizes] /\ IsFiniteSet(1..Len(s))
         /\ IsFiniteSet(Units(s)) /\ Total(s) \in Nat
<1>1. s \in [1..Len(s) -> Sizes] /\ Len(s) \in Nat
  OBVIOUS
<1>2. IsFiniteSet(1..Len(s))
  BY <1>1, FS_Interval
<1> QED BY <1>1, <1>2, UnitsFinite

\* Two sequences one after the other.
LEMMA TotalConcat ==
  ASSUME NEW s \in Seq(Sizes), NEW t \in Seq(Sizes)
  PROVE  Total(s \o t) = Total(s) + Total(t)
<1> DEFINE n == Len(s)
           c == s \o t
           f == [u \in Units(t) |-> <<n + u[1], u[2]>>]
           img == {<<n + u[1], u[2]>> : u \in Units(t)}
<1>1. c \in Seq(Sizes) /\ Len(c) = n + Len(t) /\ n \in Nat /\ Len(t) \in Nat
  OBVIOUS
<1>2. /\ \A i \in 1..n : c[i] = s[i]
      /\ \A i \in 1..Len(t) : c[n + i] = t[i]
  OBVIOUS
<1> HIDE DEF n, c
<1>3. /\ s \in [1..n -> Sizes] /\ t \in [1..Len(t) -> Sizes] /\ c \in [1..(n + Len(t)) -> Sizes]
      /\ IsFiniteSet(Units(s)) /\ IsFiniteSet(Units(t))
  BY <1>1, SeqTotal DEF n
<1>u. /\ \A u : u \in Units(s) <=> u \in (1..n) \X Nat /\ u[2] \in 1..s[u[1]]
      /\ \A u : u \in Units(t) <=> u \in (1..Len(t)) \X Nat /\ u[2] \in 1..t[u[1]]
      /\ \A u : u \in Units(c) <=> u \in (1..(n + Len(t))) \X Nat /\ u[2] \in 1..c[u[1]]
  BY <1>3, UnitIn, Zenon
<1>4. f \in Bijection(Units(t), img)
  <2>1. ASSUME NEW u \in Units(t), NEW v \in Units(t), f[u] = f[v] PROVE u = v
    <3>1. u \in (1..Len(t)) \X Nat /\ v \in (1..Len(t)) \X Nat
      BY <1>u
    <3>2. n + u[1] = n + v[1] /\ u[2] = v[2]
      BY <2>1
    <3>3. u[1] \in Nat /\ v[1] \in Nat
      BY <3>1, <1>1
    <3>4. u[1] = v[1]
      BY <1>1, <3>2, <3>3
    <3> QED BY <3>1, <3>2, <3>4
  <2>2. f \in [Units(t) -> img] /\ \A w \in img : \E u \in Units(t) : f[u] = w
    OBVIOUS
  <2> HIDE DEF f, img
  <2>a. \A u, v \in Units(t) : f[u] = f[v] => u = v
    BY <2>1
  <2>3. f \in Injection(Units(t), img)
    BY <2>a, <2>2, Zenon DEF Injection, IsInjective
  <2>4. f \in Surjection(Units(t), img)
    BY <2>2, Zenon DEF Surjection
  <2> QED BY <2>3, <2>4 DEF Bijection
<1>5. IsFiniteSet(img) /\ Cardinality(img) = Cardinality(Units(t))
  <2> HIDE DEF f, img
  <2> QED BY <1>3, <1>4, FS_Bijection DEF ExistsBijection
<1>6. Units(c) = Units(s) \cup img
  <2>1. ASSUME NEW u \in Units(c) PROVE u \in Units(s) \cup img
    <3>1. u \in (1..(n + Len(t))) \X Nat /\ u[2] \in 1..c[u[1]]
      BY <1>u
    <3>2. PICK i \in 1..(n + Len(t)), k \in Nat : u = <<i, k>>
      BY <3>1
    <3>3. CASE i \in 1..n
      BY <1>2, <1>3, <3>1, <3>2, <3>3, <1>u
    <3>4. CASE i \notin 1..n
      <4>1. i - n \in 1..Len(t) /\ n + (i - n) = i
        BY <1>1, <3>4
      <4>2. <<i - n, k>> \in Units(t)
        BY <1>2, <1>3, <3>1, <3>2, <4>1, <1>u
      <4> QED BY <3>2, <4>1, <4>2
    <3> QED BY <3>3, <3>4
  <2>2. ASSUME NEW u \in Units(s) PROVE u \in Units(c)
    <3>1. u \in (1..n) \X Nat /\ u[2] \in 1..s[u[1]]
      BY <1>u
    <3>2. u[1] \in 1..(n + Len(t)) /\ c[u[1]] = s[u[1]]
      BY <1>1, <1>2, <3>1
    <3> QED BY <1>3, <3>1, <3>2, <1>u
  <2>3. ASSUME NEW w \in img PROVE w \in Units(c)
    <3>1. PICK u \in Units(t) : w = <<n + u[1], u[2]>>
      OBVIOUS
    <3>2. u \in (1..Len(t)) \X Nat /\ u[2] \in 1..t[u[1]]
      BY <1>u
    <3>3. n + u[1] \in 1..(n + Len(t)) /\ c[n + u[1]] = t[u[1]]
      BY <1>1, <1>2, <3>2
    <3> QED BY <1>3, <3>1, <3>2, <3>3, <1>u
  <2> QED BY <2>1, <2>2, <2>3
<1>7. Units(s) \cap img = {}
  <2>1. ASSUME NEW w \in img, w \in Units(s) PROVE FALSE
    <3>1. PICK u \in Units(t) : w = <<n + u[1], u[2]>>
      OBVIOUS
    <3>2. u[1] \in 1..Len(t) /\ w[1] \in 1..n
      BY <1>u, <2>1
    <3> QED BY <1>1, <3>1, <3>2
  <2> QED BY <2>1
<1>8. Cardinality(Units(c)) = Cardinality(Units(s)) + Cardinality(Units(t))
  <2> HIDE DEF img
  <2>1. Cardinality(Units(s) \cup img)
          = Cardinality(Units(s)) + Cardinality(img) - Cardinality(Units(s) \cap img)
    BY <1>3, <1>5, FS_Union
  <2>2. Cardinality(Units(s)) \in Nat /\ Cardinality(img) \in Nat
    BY <1>3, <1>5, FS_CardinalityType
  <2>3. Cardinality({}) = 0
    BY FS_EmptySet
  <2>4. Cardinality(Units(s) \cap img) = 0
    BY <1>7, <2>3
  <2>5. Cardinality(Units(s) \cup img) = Cardinality(Units(s)) + Cardinality(img)
    BY <2>1, <2>2, <2>4
  <2> QED BY <1>5, <1>6, <2>5
<1> QED BY <1>8 DEF Total, c

\* A sequence cut in two.
LEMMA TotalCut ==
  ASSUME NEW s \in Seq(Sizes), NEW k \in 0..Len(s)
  PROVE  Total(s) = Total(SubSeq(s, 1, k)) + Total(SubSeq(s, k + 1, Len(s)))
<1>1. SubSeq(s, 1, k) \in Seq(Sizes) /\ SubSeq(s, k + 1, Len(s)) \in Seq(Sizes)
  OBVIOUS
<1>2. SubSeq(s, 1, k) \o SubSeq(s, k + 1, Len(s)) = SubSeq(s, 1, Len(s))
  <2>1. 1 \in 1..(Len(s) + 1) /\ k \in (1 - 1)..Len(s) /\ Len(s) \in k..Len(s)
    OBVIOUS
  <2> QED BY <2>1, ConcatAdjacentSubSeq
<1>3. SubSeq(s, 1, Len(s)) = s
  OBVIOUS
<1> DEFINE a == SubSeq(s, 1, k)
           b == SubSeq(s, k + 1, Len(s))
<1>4. a \in Seq(Sizes) /\ b \in Seq(Sizes) /\ a \o b = s
  BY <1>1, <1>2, <1>3
<1> HIDE DEF a, b
<1>5. Total(s) = Total(a) + Total(b)
  BY <1>4, TotalConcat
<1> QED BY <1>5 DEF a, b

\* A selection holds no more than what it was selected from.
LEMMA TotalSelect ==
  ASSUME NEW D, IsFiniteSet(D), NEW s \in [D -> Sizes],
         NEW E, NEW f \in [E -> D], \A k, l \in E : f[k] = f[l] => k = l
  PROVE  Total([k \in E |-> s[f[k]]]) <= Total(s)
<1> DEFINE r == [k \in E |-> s[f[k]]]
           g == [u \in Units(r) |-> <<f[u[1]], u[2]>>]
<1>1. r \in [E -> Sizes]
  OBVIOUS
<1>2. IsFiniteSet(Units(s))
  BY UnitsFinite
<1>3. ASSUME NEW u \in Units(r)
      PROVE  u \in E \X Nat /\ <<f[u[1]], u[2]>> \in Units(s)
  <2>1. u \in E \X Nat /\ u[2] \in 1..r[u[1]]
    BY <1>1, UnitsAre
  <2>2. f[u[1]] \in D /\ r[u[1]] = s[f[u[1]]]
    BY <2>1
  <2> QED BY <2>1, <2>2, UnitsAre
<1>4. g \in Injection(Units(r), Units(s))
  <2>1. g \in [Units(r) -> Units(s)]
    BY <1>3
  <2>2. ASSUME NEW u \in Units(r), NEW v \in Units(r), g[u] = g[v] PROVE u = v
    <3>1. u \in E \X Nat /\ v \in E \X Nat
      BY <1>3
    <3>2. f[u[1]] = f[v[1]] /\ u[2] = v[2]
      BY <2>2
    <3>3. u[1] = v[1]
      BY <3>1, <3>2
    <3> QED BY <3>1, <3>2, <3>3
  <2>3. \A u, v \in Units(r) : g[u] = g[v] => u = v
    BY <2>2
  <2> HIDE DEF g
  <2> QED BY <2>1, <2>3, Zenon DEF Injection, IsInjective
<1>5. Cardinality(Units(r)) <= Cardinality(Units(s))
  <2> HIDE DEF g, r
  <2> QED BY <1>2, <1>4, FS_Injection
<1> QED BY <1>5 DEF Total

\* A nonempty set of naturals has a least element.
LEMMA LeastNumber ==
  ASSUME NEW T \in SUBSET Nat, T # {}
  PROVE  \E x \in T : \A y \in T : x <= y
<1> DEFINE R == {ss \in Nat \X Nat : ss[1] < ss[2]}
<1>1. IsWellFoundedOn(R, Nat)
  BY NatLessThanWellFounded DEF OpToRel
<1>2. \A x, y \in Nat : <<x, y>> \notin R => y <= x
  OBVIOUS
<1> HIDE DEF R
<1>3. \E x \in T : \A y \in T : <<y, x>> \notin R
  BY <1>1, WFMin
<1> QED
  BY <1>2, <1>3

\* A set of positions can be listed in ascending order.
LEMMA InOrderIs ==
  ASSUME NEW n \in Nat, NEW S \in SUBSET (1..n)
  PROVE  /\ IsFiniteSet(S)
         /\ InOrder(S) \in [1..Cardinality(S) -> S]
         /\ \A i, j \in 1..Cardinality(S) : i < j => InOrder(S)[i] < InOrder(S)[j]
<1> DEFINE Good(T, f) == /\ f \in [1..Cardinality(T) -> T]
                         /\ \A i, j \in 1..Cardinality(T) : i < j => f[i] < f[j]
           Bad == {m \in Nat : \E T \in SUBSET (1..m) : ~\E f : Good(T, f)}
<1>1. ASSUME NEW m \in Bad PROVE \E l \in Bad : l < m
  <2>1. PICK T \in SUBSET (1..m) : ~\E f : Good(T, f)
    OBVIOUS
  <2>2. m \in Nat
    OBVIOUS
  <2>3. ASSUME T = {} PROVE FALSE
    <3>1. Cardinality(T) = 0 /\ 1..0 = {}
      BY <2>3, FS_EmptySet
    <3>2. Good(T, [i \in {} |-> i])
      BY <2>3, <3>1
    <3> QED BY <2>1, <3>2
  <2>4. m # 0 /\ m - 1 \in Nat
    BY <2>2, <2>3
  <2>5. ASSUME m - 1 \notin Bad PROVE FALSE
    <3> DEFINE R == T \ {m}
    <3>1. R \in SUBSET (1..(m - 1))
      BY <2>2
    <3>2. PICK f : Good(R, f)
      BY <2>4, <2>5, <3>1
    <3>3. m \in T
      <4>1. ASSUME m \notin T PROVE FALSE
        <5>1. R = T
          BY <4>1
        <5> QED BY <2>1, <3>2, <5>1
      <4> QED BY <4>1
    <3>4. IsFiniteSet(T)
      <4>1. IsFiniteSet(1..m)
        BY <2>2, FS_Interval
      <4> QED BY <4>1, FS_Subset
    <3>5. Cardinality(R) = Cardinality(T) - 1 /\ Cardinality(T) \in Nat
      BY <3>3, <3>4, FS_RemoveElement, FS_CardinalityType
    <3>6. Cardinality(T) # 0
      BY <2>3, <3>4, FS_EmptySet
    <3> DEFINE c == Cardinality(T)
               g == [i \in 1..c |-> IF i = c THEN m ELSE f[i]]
    <3>7. c \in Nat \ {0} /\ f \in [1..(c - 1) -> R]
      BY <3>2, <3>5, <3>6
    <3>8. \A i, j \in 1..(c - 1) : i < j => f[i] < f[j]
      BY <3>2, <3>5
    <3>9. \A x \in R : x \in T /\ x < m
      BY <2>2
    <3>10. Good(T, g)
      <4> HIDE DEF R, c
      <4>1. g \in [1..c -> T]
        BY <3>3, <3>7, <3>9
      <4>2. ASSUME NEW i \in 1..c, NEW j \in 1..c, i < j PROVE g[i] < g[j]
        <5>1. i \in 1..(c - 1) /\ g[i] = f[i] /\ f[i] \in R
          BY <3>7, <4>2
        <5>2. CASE j = c
          BY <3>9, <5>1, <5>2
        <5>3. CASE j # c
          <6>1. j \in 1..(c - 1) /\ g[j] = f[j]
            BY <3>7, <5>3
          <6> QED BY <3>8, <4>2, <5>1, <6>1
        <5> QED BY <5>2, <5>3
      <4> QED BY <4>1, <4>2 DEF c
    <3> QED BY <2>1, <3>10
  <2>6. m - 1 \in Bad /\ m - 1 < m
    BY <2>2, <2>5
  <2> QED BY <2>6
<1>2. Bad = {}
  <2>1. ASSUME Bad # {} PROVE FALSE
    <3> HIDE DEF Bad
    <3>1. Bad \in SUBSET Nat
      BY DEF Bad
    <3>2. PICK m \in Bad : \A l \in Bad : m <= l
      BY <2>1, <3>1, LeastNumber
    <3>3. PICK l \in Bad : l < m
      BY <1>1
    <3> QED BY <3>1, <3>2, <3>3
  <2> QED BY <2>1
<1>3. \E f : Good(S, f)
  BY <1>2
<1>4. Good(S, InOrder(S))
  <2>1. \E f \in [1..Cardinality(S) -> S] : \A i, j \in DOMAIN f : i < j => f[i] < f[j]
    BY <1>3
  <2> QED BY <2>1 DEF InOrder
<1>5. IsFiniteSet(S)
  <2>1. IsFiniteSet(1..n)
    BY FS_Interval
  <2> QED BY <2>1, FS_Subset
<1> QED BY <1>4, <1>5
-----------------------------------------------------------------------------
(* Hands and handles *)

\* The sets of hands and threads.
LEMMA Crews ==
  /\ MaxWorkers \in Nat \ {0} /\ NElems \in Nat \ {0} /\ PerWorker \in Nat \ {0}
  /\ Cap \in Nat \ {0}
  /\ Hands \subseteq Threads /\ 0 \in Threads /\ 0 \notin Hands
  /\ \A h \in Threads : h # 0 => h \in Hands
  /\ \A h \in Hands : h \in Nat
  /\ IsFiniteSet(Hands) /\ IsFiniteSet(Threads)
<1>1. /\ MaxWorkers \in Nat \ {0} /\ NElems \in Nat \ {0} /\ PerWorker \in Nat \ {0}
      /\ Cap \in Nat \ {0}
  BY HostFanAssumption
<1>2. IsFiniteSet(Hands) /\ IsFiniteSet(Threads)
  BY <1>1, FS_Interval DEF Hands, Threads
<1> QED BY <1>1, <1>2 DEF Hands, Threads

\* The hands with a job can be counted.
LEMMA Counts ==
  /\ IsFiniteSet(Sending) /\ Cardinality(Sending) \in Nat
  /\ IsFiniteSet(Holding) /\ Cardinality(Holding) \in Nat
  /\ Holding \subseteq Sending
<1>1. Sending \in SUBSET Hands /\ Holding \in SUBSET Hands /\ Holding \subseteq Sending
  BY DEF Sending, Holding
<1>2. IsFiniteSet(Sending) /\ IsFiniteSet(Holding)
  BY <1>1, Crews, FS_Subset
<1> QED BY <1>1, <1>2, FS_CardinalityType

\* The threads while Deal::run is on them.
Running == {"start", "arm", "armed", "check", "claim", "call", "grown", "loop", "fail"}

\* What a step of Deal::run leaves alone, and where it takes its thread.
LEMMA HandMoves ==
  ASSUME Types, WorkerOK, NEW h \in Threads, HandStep(h)
  PROVE  /\ UNCHANGED <<gvars, senders, parts, chan>>
         /\ deal'.jobs = deal.jobs /\ deal'.refs = deal.refs /\ deal'.block = deal.block
         /\ hpc[h] \in Running /\ hpc'[h] \in (Running \ {"start"}) \cup {"end"}
         /\ \A g \in Threads \ {h} : hpc'[g] = hpc[g] /\ mem'[g] = mem[g]
                                     /\ at'[g] = at[g] /\ done'[g] = done[g]
         /\ Types'
<1> USE DEF Types, GoTo, gvars, cvars, hvars
<1>1. CASE Start(h)
  <2>1. used' \in Int
    BY <1>1 DEF Start
  <2>2. mem' \in [Threads -> Sizes]
    <3>1. 1 \in Sizes
      BY DEF Sizes
    <3> QED BY <1>1, <3>1 DEF Start
  <2> QED BY <1>1, <2>1, <2>2 DEF Start, HandPcs, Running
<1>2. CASE Arm(h)
  BY <1>2 DEF Arm, HandPcs, Running
<1>3. CASE Armed(h)
  BY <1>3 DEF Armed, HandPcs, Running
<1>4. CASE Check(h)
  BY <1>4 DEF Check, HandPcs, Running
<1>5. CASE Claim(h)
  <2>1. deal'.next \in Nat /\ at' \in [Threads -> Nat]
    BY <1>5 DEF Claim
  <2> QED BY <1>5, <2>1 DEF Claim, HandPcs, Running
<1>6. CASE Return(h)
  <2>1. at[h]..(BlockEnd(h) - 1) \subseteq Elems
    BY Crews DEF BlockEnd, Least, Elems
  <2>2. done' \in [Threads -> SUBSET Elems]
    BY <1>6, <2>1 DEF Return
  <2> QED BY <1>6, <2>2 DEF Return, HandPcs, Running
<1>7. CASE Fault(h)
  BY <1>7 DEF Fault, HandPcs, Running
<1>8. CASE Interrupt(h)
  BY <1>8 DEF Interrupt, HandPcs, Running
<1>9. CASE GrowWorker(h)
  <2>1. used' \in Int
    BY <1>9 DEF GrowWorker
  <2>2. mem' \in [Threads -> Sizes]
    <3>1. mem[h] \in Nat
      BY <1>9 DEF GrowWorker, WorkerOK, Sizes
    <3>2. mem[h] + 1 \in Sizes
      BY <3>1 DEF Sizes
    <3> QED BY <1>9, <3>2 DEF GrowWorker
  <2> QED BY <1>9, <2>1, <2>2 DEF GrowWorker, HandPcs, Running
<1>10. CASE UndoGrow(h)
  <2>1. used' \in Int
    BY <1>10 DEF UndoGrow
  <2>2. mem' \in [Threads -> Sizes]
    <3>1. mem[h] \in Nat /\ mem[h] # 0
      BY <1>10 DEF UndoGrow, WorkerOK, Sizes
    <3>2. mem[h] - 1 \in Sizes
      BY <3>1 DEF Sizes
    <3> QED BY <1>10, <3>2 DEF UndoGrow
  <2> QED BY <1>10, <2>1, <2>2 DEF UndoGrow, HandPcs, Running
<1>11. CASE Fail(h)
  <2>1. used' \in Int
    <3>1. Held(mem[h]) \in Int
      BY DEF Held, Sizes, None
    <3>2. used' = used - Held(mem[h])
      BY <1>11 DEF Fail
    <3> QED BY <3>1, <3>2
  <2>2. mem' \in [Threads -> Sizes]
    BY <1>11 DEF Fail, Sizes
  <2> QED BY <1>11, <2>1, <2>2 DEF Fail, HandPcs, Running
<1> QED
  BY <1>1, <1>2, <1>3, <1>4, <1>5, <1>6, <1>7, <1>8, <1>9, <1>10, <1>11 DEF HandStep

\* A step of Deal::run keeps HostInv.
LEMMA HandStepKeeps ==
  ASSUME HostInv, NEW h \in Threads, HandStep(h)
  PROVE  HostInv'
<1>1. Types /\ WorkerOK /\ CrewOK /\ JobsOK /\ CountOK
  BY DEF HostInv
<1>2. /\ UNCHANGED <<gpc, guest, pool, crew, taken, sent, refused, senders, parts, chan>>
      /\ deal'.jobs = deal.jobs /\ deal'.refs = deal.refs /\ deal'.block = deal.block
      /\ hpc[h] \in Running /\ hpc'[h] \in (Running \ {"start"}) \cup {"end"}
      /\ \A g \in Threads \ {h} : hpc'[g] = hpc[g] /\ mem'[g] = mem[g]
      /\ Types'
  BY <1>1, HandMoves DEF gvars
<1>3. \A g \in Hands : Job(g)' = Job(g)
  BY <1>2, Crews DEF Job, Running
<1>4. CrewOK'
  BY <1>1, <1>2, <1>3, Crews DEF CrewOK, Running
<1>5. JobsOK'
  BY <1>1, <1>2 DEF JobsOK
<1>6. CountOK'
  <2>1. Sending' = Sending
    BY <1>3 DEF Sending
  <2>2. Holding' = Holding
    BY <1>2, <2>1, Crews DEF Holding, Sending, Running
  <2>3. Pending' = Pending
    BY <1>2 DEF Pending
  <2> QED BY <1>1, <1>2, <2>1, <2>2, <2>3 DEF CountOK
<1>7. WorkerOK'
  <2> SUFFICES ASSUME NEW g \in Threads
               PROVE  /\ hpc'[g] \in {"absent", "wait", "back"} => mem'[g] = None
                      /\ hpc'[g] \in {"arm", "armed", "check", "claim", "call", "grown", "loop"}
                           => mem'[g] # None
                      /\ hpc'[g] = "grown" => mem'[g] # 0
    BY DEF WorkerOK
  <2>1. CASE g # h
    BY <1>1, <1>2, <2>1 DEF WorkerOK
  <2>2. CASE g = h
    <3>1. hpc'[h] \notin {"absent", "wait", "back"}
      BY <1>2 DEF Running
    <3>2. mem[h] \in Sizes /\ mem \in [Threads -> Sizes] /\ hpc \in [Threads -> HandPcs]
      BY <1>1 DEF Types
    <3>3. hpc[h] \in {"arm", "armed", "check", "claim", "call", "grown", "loop"} => mem[h] \in Nat
      BY <1>1, <3>2 DEF WorkerOK, Sizes
    <3> USE DEF GoTo
    <3>4. CASE Start(h)
      BY <2>2, <3>1, <3>2, <3>4 DEF Start, None
    <3>5. CASE Arm(h) \/ Armed(h) \/ Check(h) \/ Claim(h) \/ Return(h) \/ Fault(h) \/ Interrupt(h)
      BY <1>2, <2>2, <3>1, <3>2, <3>3, <3>5 DEF Arm, Armed, Check, Claim, Return, Fault, Interrupt, None
    <3>6. CASE GrowWorker(h)
      BY <2>2, <3>1, <3>2, <3>3, <3>6 DEF GrowWorker, None
    <3>7. CASE UndoGrow(h)
      BY <2>2, <3>1, <3>2, <3>7 DEF UndoGrow
    <3>8. CASE Fail(h)
      BY <2>2, <3>1, <3>2, <3>8 DEF Fail
    <3> QED BY <3>4, <3>5, <3>6, <3>7, <3>8 DEF HandStep
  <2> QED BY <2>1, <2>2
<1> QED BY <1>2, <1>4, <1>5, <1>6, <1>7 DEF HostInv

\* A hand takes a job from its channel.
LEMMA RecvKeeps ==
  ASSUME HostInv, NEW h \in Hands, Recv(h)
  PROVE  HostInv'
<1>1. Types /\ WorkerOK /\ CrewOK /\ JobsOK /\ CountOK /\ h \in Threads
  BY Crews DEF HostInv
<1>2. /\ UNCHANGED <<gpc, guest, used, pool, crew, taken, sent, refused, deal, senders, parts, at>>
      /\ hpc[h] = "wait" /\ hpc'[h] = "start" /\ chan[h] # <<>> /\ chan'[h] = Tail(chan[h])
      /\ \A g \in Threads \ {h} : hpc'[g] = hpc[g] /\ mem'[g] = mem[g]
      /\ \A g \in Hands \ {h} : chan'[g] = chan[g]
  BY <1>1 DEF Recv, GoTo, gvars, Types
<1>3. chan'[h] = <<>>
  <2>1. chan[h] \in Seq(Sizes) /\ Len(chan[h]) = 1
    BY <1>1, <1>2 DEF CrewOK, Types
  <2>2. Tail(chan[h]) \in Seq(Sizes) /\ Len(Tail(chan[h])) = 0
    BY <1>2, <2>1
  <2> QED BY <1>2, <2>2, EmptySeq
<1>4. Types'
  <2>1. Head(chan[h]) \in Sizes /\ Tail(chan[h]) \in Seq(Sizes)
    BY <1>1, <1>2 DEF Types
  <2>2. mem' \in [Threads -> Sizes]
    BY <1>1, <2>1 DEF Recv, Types
  <2>3. chan' \in [Hands -> Seq(Sizes)]
    BY <1>1, <2>1 DEF Recv, Types
  <2>4. hpc' \in [Threads -> HandPcs] /\ done' \in [Threads -> SUBSET Elems]
    BY <1>1 DEF Recv, GoTo, Types, HandPcs
  <2> QED BY <1>1, <1>2, <2>2, <2>3, <2>4 DEF Types
<1>5. \A g \in Hands : Job(g)' = Job(g)
  BY <1>2, Crews DEF Job
<1>6. CrewOK'
  BY <1>1, <1>2, <1>3, <1>5, Crews DEF CrewOK
<1>7. JobsOK'
  BY <1>1, <1>2 DEF JobsOK
<1>8. CountOK'
  <2>1. Sending' = Sending
    BY <1>5 DEF Sending
  <2>2. Holding' = Holding
    BY <1>2, <2>1, Crews DEF Holding, Sending
  <2>3. Pending' = Pending
    BY <1>2 DEF Pending
  <2> QED BY <1>1, <1>2, <2>1, <2>2, <2>3 DEF CountOK
<1>9. WorkerOK'
  BY <1>1, <1>2 DEF WorkerOK
<1> QED BY <1>4, <1>6, <1>7, <1>8, <1>9 DEF HostInv

\* A hand drops its handle on the deal.
LEMMA DropDealKeeps ==
  ASSUME HostInv, NEW h \in Hands, DropDeal(h)
  PROVE  HostInv'
<1>1. Types /\ WorkerOK /\ CrewOK /\ JobsOK /\ CountOK /\ h \in Threads
  BY Crews DEF HostInv
<1>2. /\ UNCHANGED <<gpc, guest, used, pool, crew, taken, sent, refused, senders, parts, chan,
                     mem, at, done>>
      /\ hpc[h] = "end" /\ hpc'[h] = "send"
      /\ \A g \in Threads \ {h} : hpc'[g] = hpc[g]
      /\ deal'.refs = deal.refs - 1 /\ deal'.jobs = deal.jobs
  BY <1>1 DEF DropDeal, GoTo, gvars, Types
<1>3. Types'
  <2>1. hpc' \in [Threads -> HandPcs]
    BY <1>1 DEF DropDeal, GoTo, Types, HandPcs
  <2>2. deal' \in [jobs : Nat, next : Nat, block : Nat \ {0}, failed : BOOLEAN, refs : Int]
    <3>1. deal.refs - 1 \in Int
      BY <1>1 DEF Types
    <3> QED BY <1>1, <3>1 DEF DropDeal, Types
  <2> QED BY <1>1, <1>2, <2>1, <2>2 DEF Types
<1>4. \A g \in Hands : Job(g)' = Job(g)
  BY <1>2, Crews DEF Job
<1>5. CrewOK'
  BY <1>1, <1>2, <1>4, Crews DEF CrewOK
<1>6. JobsOK'
  BY <1>1, <1>2 DEF JobsOK
<1>7. CountOK'
  <2>1. Sending' = Sending
    BY <1>4 DEF Sending
  <2>2. Holding' = Holding \ {h} /\ h \in Holding
    BY <1>2, <2>1, Crews DEF Holding, Sending, Job
  <2>3. Cardinality(Holding') = Cardinality(Holding) - 1
    BY <2>2, Counts, FS_RemoveElement
  <2>4. Pending' = Pending /\ Pending \in Int
    BY <1>1, <1>2 DEF Pending, Types
  <2>5. deal.refs \in Int /\ MaxWorkers \in Nat
    BY <1>1, Crews DEF Types
  <2> QED BY <1>1, <1>2, <2>1, <2>3, <2>4, <2>5, Counts DEF CountOK
<1>8. WorkerOK'
  BY <1>1, <1>2 DEF WorkerOK
<1> QED BY <1>3, <1>5, <1>6, <1>7, <1>8 DEF HostInv

\* A hand sends its part.
LEMMA SendKeeps ==
  ASSUME HostInv, NEW h \in Hands, Send(h)
  PROVE  HostInv'
<1>1. Types /\ WorkerOK /\ CrewOK /\ JobsOK /\ CountOK /\ h \in Threads
  BY Crews DEF HostInv
<1>2. /\ UNCHANGED <<gpc, guest, used, pool, crew, taken, sent, refused, deal, senders, chan,
                     at, done>>
      /\ hpc[h] = "send" /\ hpc'[h] = "back" /\ mem'[h] = None
      /\ \A g \in Threads \ {h} : hpc'[g] = hpc[g] /\ mem'[g] = mem[g]
  BY <1>1 DEF Send, GoTo, gvars, Types
<1>3. Types'
  <2>1. hpc' \in [Threads -> HandPcs]
    BY <1>1 DEF Send, GoTo, Types, HandPcs
  <2>2. mem' \in [Threads -> Sizes]
    BY <1>1 DEF Send, Types, Sizes
  <2>3. Part(h) \in [worker : Sizes, done : SUBSET Elems]
    BY <1>1 DEF Part, Types
  <2>4. parts' \in Seq([worker : Sizes, done : SUBSET Elems])
    BY <1>1, <2>3 DEF Send, Types
  <2> QED BY <1>1, <1>2, <2>1, <2>2, <2>4 DEF Types
<1>4. \A g \in Hands : Job(g)' = Job(g)
  BY <1>2, Crews DEF Job
<1>5. CrewOK'
  BY <1>1, <1>2, <1>4, Crews DEF CrewOK
<1>6. JobsOK'
  <2>1. gpc \in {"dispatch", "collect"}
    BY <1>1, <1>2 DEF CrewOK, Job
  <2> QED BY <1>1, <1>2, <2>1 DEF JobsOK
<1>7. CountOK'
  <2>1. Sending' = Sending
    BY <1>4 DEF Sending
  <2>2. Holding' = Holding
    BY <1>2, <2>1, Crews DEF Holding, Sending
  <2>3. Pending' = Pending
    BY <1>2 DEF Pending
  <2> QED BY <1>1, <1>2, <2>1, <2>2, <2>3 DEF CountOK
<1>8. WorkerOK'
  BY <1>1, <1>2 DEF WorkerOK
<1> QED BY <1>3, <1>5, <1>6, <1>7, <1>8 DEF HostInv

\* A hand drops its sender at the end of its round.
LEMMA DropBackKeeps ==
  ASSUME HostInv, NEW h \in Hands, DropBack(h)
  PROVE  HostInv'
<1>1. Types /\ WorkerOK /\ CrewOK /\ JobsOK /\ CountOK /\ h \in Threads
  BY Crews DEF HostInv
<1>2. /\ UNCHANGED <<gpc, guest, used, pool, crew, taken, sent, refused, deal, parts, chan,
                     mem, at, done>>
      /\ senders' = senders - 1
      /\ hpc[h] = "back" /\ hpc'[h] = "wait"
      /\ \A g \in Threads \ {h} : hpc'[g] = hpc[g]
  BY <1>1 DEF DropBack, GoTo, gvars, Types
<1>3. Types'
  <2>1. hpc' \in [Threads -> HandPcs]
    BY <1>1 DEF DropBack, GoTo, Types, HandPcs
  <2> QED BY <1>1, <1>2, <2>1 DEF Types
<1>4. (\A g \in Hands \ {h} : Job(g)' = Job(g)) /\ Job(h) /\ ~Job(h)'
  BY <1>1, <1>2, Crews DEF Job, CrewOK
<1>5. CrewOK'
  BY <1>1, <1>2, <1>4, Crews DEF CrewOK
<1>6. JobsOK'
  BY <1>1, <1>2 DEF JobsOK
<1>7. CountOK'
  <2>1. Sending' = Sending \ {h} /\ h \in Sending
    BY <1>4 DEF Sending
  <2>2. Holding' = Holding
    BY <1>2, <2>1, Crews DEF Holding, Sending
  <2>3. Cardinality(Sending') = Cardinality(Sending) - 1
    BY <2>1, Counts, FS_RemoveElement
  <2>4. Pending' = Pending /\ Pending \in Int
    BY <1>1, <1>2 DEF Pending, Types
  <2>5. senders \in Int /\ MaxWorkers \in Nat
    BY <1>1, Crews DEF Types
  <2> QED BY <1>1, <1>2, <2>2, <2>3, <2>4, <2>5, Counts DEF CountOK
<1>8. WorkerOK'
  BY <1>1, <1>2 DEF WorkerOK
<1> QED BY <1>3, <1>5, <1>6, <1>7, <1>8 DEF HostInv

\* No job, no handle.
LEMMA NoJobs ==
  ASSUME \A h \in Hands : ~Job(h)
  PROVE  Sending = {} /\ Holding = {} /\ Cardinality(Sending) = 0 /\ Cardinality(Holding) = 0
<1>1. Sending = {} /\ Holding = {}
  BY DEF Sending, Holding
<1> QED BY <1>1, FS_EmptySet

\* While the guest runs nothing is in flight.
LEMMA Quiet ==
  ASSUME HostInv, gpc \notin {"dispatch", "collect"}
  PROVE  /\ \A h \in Hands : ~Job(h) /\ chan[h] = <<>> /\ hpc[h] \in {"absent", "wait"}
         /\ gpc # "await" => hpc[0] = "absent"
         /\ gpc # "await" => \A h \in Threads : hpc[h] \in {"absent", "wait"} /\ mem[h] = None
         /\ senders = 0
         /\ deal.refs = IF gpc \in {"run", "oom"} THEN 0 ELSE 1
<1>1. \A h \in Hands : ~Job(h)
  BY DEF HostInv, CrewOK
<1>2. \A h \in Hands : chan[h] = <<>> /\ hpc[h] \in {"absent", "wait"}
  BY <1>1 DEF Job
<1>3. gpc # "await" => hpc[0] = "absent"
  BY DEF HostInv, CrewOK
<1>4. gpc # "await" => \A h \in Threads : hpc[h] \in {"absent", "wait"} /\ mem[h] = None
  BY <1>2, <1>3, Crews DEF HostInv, WorkerOK
<1>5. Cardinality(Sending) = 0 /\ Cardinality(Holding) = 0 /\ Pending = 0
  BY <1>1, NoJobs DEF Pending
<1> QED BY <1>1, <1>2, <1>3, <1>4, <1>5 DEF HostInv, CountOK

\* Steps of the guest between offers: growth and a child instance.
LEMMA GuestKeeps ==
  ASSUME HostInv, Grow \/ StartChild
  PROVE  HostInv'
<1>1. Types /\ WorkerOK /\ CrewOK /\ JobsOK /\ CountOK
  BY DEF HostInv
<1>2. /\ UNCHANGED <<crew, taken, sent, refused, deal, senders, parts, chan, hpc, mem, at, done>>
      /\ gpc = "run" /\ gpc' \in {"run", "oom"}
      /\ guest' \in {guest, guest + 1}
      /\ used' \in {used, used + 1, used - Total(pool), used - Total(pool) + 1}
      /\ pool' \in {pool, <<>>}
  BY DEF Grow, StartChild, cvars, hvars
<1>3. Total(pool) \in Nat
  BY <1>1, SeqTotal DEF Types
<1>4. Types'
  <2>1. guest' \in Nat /\ used' \in Int
    BY <1>1, <1>2, <1>3 DEF Types
  <2>2. pool' \in Seq(Sizes)
    BY <1>1, <1>2, EmptySeq DEF Types
  <2> QED BY <1>1, <1>2, <2>1, <2>2 DEF Types
<1>5. Sending' = Sending /\ Holding' = Holding /\ Pending' = Pending
  BY <1>2 DEF Sending, Holding, Pending, Job
<1>6. CrewOK' /\ JobsOK' /\ WorkerOK'
  BY <1>1, <1>2 DEF CrewOK, JobsOK, WorkerOK, Job
<1>7. CountOK'
  BY <1>1, <1>2, <1>5 DEF CountOK
<1> QED BY <1>4, <1>6, <1>7 DEF HostInv

\* An offer's block is at least one element.
LEMMA BlockSize ==
  ASSUME NEW w \in Nat \ {0}
  PROVE  DivCeil(NElems, w * PerWorker) \in Nat \ {0}
<1>1. w * PerWorker \in Nat /\ w * PerWorker > 0
  BY Crews
<1>2. \A b \in Nat : b > 0 => (NElems + b - 1) \div b \in Nat \ {0}
  BY Crews
<1> QED BY <1>1, <1>2 DEF DivCeil

\* run_all up to the jobs.
LEMMA OfferKeeps ==
  ASSUME HostInv, NEW w \in 1..Least(MaxWorkers, NElems), Offer(w)
  PROVE  HostInv'
<1>1. Types /\ WorkerOK /\ CrewOK /\ JobsOK /\ CountOK
  BY DEF HostInv
<1>2. w \in Nat \ {0} /\ w <= MaxWorkers /\ MaxWorkers \in Nat
  BY Crews DEF Least
<1>3. /\ UNCHANGED <<guest, used, crew, chan, hpc, mem, at, done>>
      /\ gpc = "run" /\ gpc' = (IF w < 2 THEN "inline" ELSE "dispatch")
      /\ deal'.jobs = w /\ deal'.refs = (IF w < 2 THEN 1 ELSE w + 1)
      /\ senders' = IF w < 2 THEN 0 ELSE w
      /\ parts' = <<>> /\ sent' = 0 /\ refused' = <<>>
  BY DEF Offer, hvars
<1>4. \E k \in 0..Len(pool) :
        /\ pool' = SubSeq(pool, 1, k) /\ taken' = SubSeq(pool, k + 1, Len(pool))
        /\ Len(pool) - k <= w
  <2>1. Len(pool) \in Nat
    BY <1>1 DEF Types
  <2> DEFINE k == IF Len(pool) > w THEN Len(pool) - w ELSE 0
  <2>2. k \in 0..Len(pool) /\ Len(pool) - k <= w
    BY <1>2, <2>1
  <2>3. pool' = SubSeq(pool, 1, k) /\ taken' = SubSeq(pool, k + 1, Len(pool))
    BY DEF Offer
  <2> QED BY <2>2, <2>3
<1>5. pool' \in Seq(Sizes) /\ taken' \in Seq(Sizes) /\ Len(taken') <= w
  <2>1. PICK k \in 0..Len(pool) : /\ pool' = SubSeq(pool, 1, k)
                                  /\ taken' = SubSeq(pool, k + 1, Len(pool))
                                  /\ Len(pool) - k <= w
    BY <1>4
  <2>2. pool \in Seq(Sizes) /\ Len(pool) \in Nat
    BY <1>1 DEF Types
  <2>3. SubSeq(pool, 1, k) \in Seq(Sizes)
    BY <2>2
  <2>4. SubSeq(pool, k + 1, Len(pool)) \in Seq(Sizes) /\ Len(SubSeq(pool, k + 1, Len(pool))) = Len(pool) - k
    BY <2>2
  <2> QED BY <1>2, <2>1, <2>2, <2>3, <2>4
<1>6. deal' \in [jobs : Nat, next : Nat, block : Nat \ {0}, failed : BOOLEAN, refs : Int]
  BY <1>2, BlockSize, Crews DEF Offer
<1>7. Types'
  <2>1. /\ gpc' \in {"run", "inline", "await", "dispatch", "collect", "inner", "oom"}
        /\ sent' \in Nat /\ senders' \in Int
        /\ refused' \in Seq(Sizes) /\ parts' \in Seq([worker : Sizes, done : SUBSET Elems])
    BY <1>2, <1>3
  <2> QED BY <1>1, <1>3, <1>5, <1>6, <2>1 DEF Types
<1>8. \A h \in Hands : ~Job(h) /\ ~Job(h)'
  BY <1>1, <1>3, Quiet DEF Job
<1>9. CrewOK'
  BY <1>1, <1>3, <1>8 DEF CrewOK
<1>10. JobsOK'
  BY <1>2, <1>3, <1>5 DEF JobsOK
<1>11. CountOK'
  <2>1. Cardinality(Sending') = 0 /\ Cardinality(Holding') = 0
    <3>1. Sending' = {} /\ Holding' = {}
      BY <1>8 DEF Sending, Holding
    <3> QED BY <3>1, FS_EmptySet
  <2>2. Pending' = IF w < 2 THEN 0 ELSE w
    BY <1>2, <1>3 DEF Pending
  <2> QED BY <1>2, <1>3, <2>1, <2>2 DEF CountOK
<1>12. WorkerOK'
  BY <1>1, <1>3 DEF WorkerOK
<1> QED BY <1>7, <1>9, <1>10, <1>11, <1>12 DEF HostInv

\* The worker popped from the taken ones, and the rest of them.
LEMMA Pops ==
  ASSUME Types
  PROVE  /\ Popped \in Sizes /\ Rest \in Seq(Sizes)
         /\ taken = <<>> => Len(Rest) = 0
         /\ taken # <<>> => Len(Rest) = Len(taken) - 1
         /\ Total(taken) = Total(Rest) + Held(Popped)
<1>1. taken \in Seq(Sizes)
  BY DEF Types
<1>2. CASE taken = <<>>
  <2>1. Popped = None /\ Rest = <<>> /\ Held(Popped) = 0 /\ None \in Sizes
    BY <1>2 DEF Popped, Rest, Held, Sizes
  <2>2. Total(Rest) \in Nat
    <3>1. Rest \in Seq(Sizes)
      BY <2>1, EmptySeq
    <3> QED BY <3>1, SeqTotal
  <2> QED BY <1>2, <2>1, <2>2
<1>3. CASE taken # <<>>
  <2>1. Popped = taken[Len(taken)] /\ Rest = SubSeq(taken, 1, Len(taken) - 1)
    BY <1>3 DEF Popped, Rest
  <2>2. Len(taken) \in Nat \ {0}
    BY <1>1, <1>3, EmptySeq
  <2>3. taken[Len(taken)] \in Sizes /\ SubSeq(taken, 1, Len(taken) - 1) \in Seq(Sizes)
    BY <1>1, <2>2
  <2>4. Len(SubSeq(taken, 1, Len(taken) - 1)) = Len(taken) - 1
    <3>1. \A i \in 1..(Len(taken) - 1) : taken[i] \in Sizes
      BY <1>1, <2>2
    <3>2. Len(SubSeq(taken, 1, Len(taken) - 1))
            = IF 1 <= Len(taken) - 1 THEN Len(taken) - 1 - 1 + 1 ELSE 0
      BY <2>2, <3>1, SubSeqProperties
    <3>3. \A n \in Nat \ {0} : (IF 1 <= n - 1 THEN n - 1 - 1 + 1 ELSE 0) = n - 1
      OBVIOUS
    <3>4. (IF 1 <= Len(taken) - 1 THEN Len(taken) - 1 - 1 + 1 ELSE 0) = Len(taken) - 1
      BY ONLY <2>2, <3>3
    <3> QED BY ONLY <3>2, <3>4
  <2> QED BY <1>1, <1>3, <2>1, <2>3, <2>4, TotalLast
<1> QED BY <1>2, <1>3

\* An offer of one worker starts on the calling thread.
LEMMA RunInlineKeeps ==
  ASSUME HostInv, RunInline
  PROVE  HostInv'
<1>1. Types /\ WorkerOK /\ CrewOK /\ JobsOK /\ CountOK /\ 0 \in Threads
  BY Crews DEF HostInv
<1>2. /\ UNCHANGED <<guest, used, pool, crew, sent, refused, deal, senders, parts, chan, at>>
      /\ gpc = "inline" /\ gpc' = "await"
      /\ hpc'[0] = "start"
      /\ \A g \in Threads \ {0} : hpc'[g] = hpc[g] /\ mem'[g] = mem[g]
      /\ taken' = Rest
  BY <1>1 DEF RunInline, cvars, Types
<1>3. taken' \in Seq(Sizes) /\ taken' = <<>>
  <2>1. Rest \in Seq(Sizes) /\ Len(taken) \in Nat /\ Len(taken) <= 1 /\ taken \in Seq(Sizes)
    BY <1>1, <1>2, Pops DEF JobsOK, Types
  <2>2. Len(Rest) = 0
    BY <1>1, <2>1, Pops, EmptySeq
  <2> QED BY <1>2, <2>1, <2>2, EmptySeq
<1>4. Types'
  <2>1. hpc' \in [Threads -> HandPcs] /\ done' \in [Threads -> SUBSET Elems]
    BY <1>1 DEF RunInline, Types, HandPcs
  <2>2. mem' \in [Threads -> Sizes]
    BY <1>1, Pops DEF RunInline, Types
  <2> QED BY <1>1, <1>2, <1>3, <2>1, <2>2 DEF Types
<1>5. \A g \in Hands : Job(g)' = Job(g) /\ ~Job(g)
  BY <1>1, <1>2, Crews DEF Job, CrewOK
<1>6. CrewOK'
  BY <1>1, <1>2, <1>5, Crews DEF CrewOK
<1>7. JobsOK'
  BY <1>1, <1>2, <1>3 DEF JobsOK
<1>8. CountOK'
  <2>1. Sending' = Sending
    BY <1>5 DEF Sending
  <2>2. Holding' = {} /\ Holding = {}
    BY <1>5 DEF Holding, Sending
  <2>3. Pending' = Pending
    BY <1>2 DEF Pending
  <2> QED BY <1>1, <1>2, <2>1, <2>2, <2>3 DEF CountOK
<1>9. WorkerOK'
  BY <1>1, <1>2 DEF WorkerOK
<1> QED BY <1>4, <1>6, <1>7, <1>8, <1>9 DEF HostInv

\* One job dispatched: to a hand that has none, or refused.
LEMMA DispatchKeeps ==
  ASSUME HostInv, Dispatch
  PROVE  HostInv'
<1>1. Types /\ WorkerOK /\ CrewOK /\ JobsOK /\ CountOK
  BY DEF HostInv
<1>2. /\ UNCHANGED <<gpc, guest, pool, used, deal, senders, parts, mem, at, done>>
      /\ gpc = "dispatch" /\ sent < deal.jobs /\ sent' = sent + 1 /\ taken' = Rest
  BY DEF Dispatch
<1>3. /\ sent \in Nat /\ deal.jobs \in 1..MaxWorkers /\ crew \in 0..MaxWorkers
      /\ MaxWorkers \in Nat /\ senders \in Int /\ deal.refs \in Int /\ Len(refused) \in Nat
  BY <1>1, <1>2, Crews DEF Types, JobsOK
<1>4. Popped \in Sizes /\ taken' \in Seq(Sizes) /\ Len(taken') <= deal.jobs - sent'
  <2>1. Popped \in Sizes /\ Rest \in Seq(Sizes)
    BY <1>1, Pops
  <2>2. Len(taken) \in Nat /\ Len(taken) <= deal.jobs - sent
    BY <1>1, <1>2 DEF Types, JobsOK
  <2>3. Len(Rest) = 0 \/ Len(Rest) = Len(taken) - 1
    BY <1>1, Pops
  <2> QED BY <1>2, <1>3, <2>1, <2>2, <2>3
<1>5. JobsOK'
  BY <1>1, <1>2, <1>3, <1>4 DEF JobsOK
\* The job went to hand h.
<1>6. ASSUME NEW h \in Hands, h <= sent + 1, ~Job(h), refused' = refused,
             chan' = [chan EXCEPT ![h] = Append(@, Popped)],
             hpc' = hpc \/ hpc' = [hpc EXCEPT ![h] = "wait"], hpc'[h] = "wait",
             crew' \in 0..MaxWorkers, \A g \in Hands : g <= crew' <=> (g <= crew \/ g = h)
      PROVE  HostInv'
  <2>1. h \in Threads /\ h # 0 /\ h \in Nat
    BY Crews
  <2>2. /\ \A g \in Threads \ {h} : hpc'[g] = hpc[g]
        /\ \A g \in Hands \ {h} : chan'[g] = chan[g]
        /\ chan'[h] = Append(chan[h], Popped) /\ chan[h] = <<>>
        /\ hpc[h] \in {"absent", "wait"}
    BY <1>1, <1>6, <2>1 DEF Types, Job
  <2>3. chan'[h] \in Seq(Sizes) /\ Len(chan'[h]) = 1 /\ chan'[h] # <<>>
    BY <1>4, <2>2
  <2>4. Types'
    <3>1. chan' \in [Hands -> Seq(Sizes)]
      BY <1>1, <1>6, <2>2, <2>3 DEF Types
    <3>2. hpc' \in [Threads -> HandPcs]
      BY <1>1, <1>6, <2>1 DEF Types, HandPcs
    <3>3. sent' \in Nat
      BY <1>2, <1>3
    <3> QED BY <1>1, <1>2, <1>4, <1>6, <3>1, <3>2, <3>3 DEF Types
  <2>5. Job(h)' /\ \A g \in Hands \ {h} : Job(g)' = Job(g)
    BY <2>2, <2>3, Crews DEF Job
  <2>6. CrewOK'
    <3>1. \A g \in Hands : g <= crew' <=> hpc'[g] # "absent"
      BY <1>1, <1>6, <2>2, Crews DEF CrewOK
    <3>2. \A g \in Hands : chan'[g] # <<>> => hpc'[g] = "wait" /\ Len(chan'[g]) = 1
      BY <1>1, <1>6, <2>2, <2>3, Crews DEF CrewOK
    <3>3. \A g \in Hands : Job(g)' /\ gpc' = "dispatch" => g <= sent'
      BY <1>1, <1>2, <1>3, <1>6, <2>5, Crews DEF CrewOK
    <3>4. hpc'[0] = hpc[0] /\ 0 \in Threads
      BY <2>1, <2>2, Crews
    <3> QED BY <1>1, <1>2, <3>1, <3>2, <3>3, <3>4 DEF CrewOK
  <2>7. CountOK'
    <3>1. Sending' = Sending \cup {h} /\ h \notin Sending
      BY <1>6, <2>5 DEF Sending
    <3>2. Holding' = Holding \cup {h} /\ h \notin Holding
      BY <1>6, <2>2, <3>1, Crews DEF Holding, Sending
    <3>3. /\ Cardinality(Sending') = Cardinality(Sending) + 1
          /\ Cardinality(Holding') = Cardinality(Holding) + 1
      BY <3>1, <3>2, Counts, FS_AddElement
    <3>4. Pending' = Pending - 1 /\ Pending \in Int
      <4>1. gpc' = "dispatch" /\ deal'.jobs = deal.jobs /\ Len(refused') = Len(refused) /\ deal.jobs \in Int
        BY <1>2, <1>3, <1>6
      <4>2. Pending = deal.jobs - sent + Len(refused) /\ Pending' = deal.jobs - (sent + 1) + Len(refused)
        BY <1>2, <4>1 DEF Pending
      <4> QED BY <1>3, <4>1, <4>2, SMTT(60)
    <3> QED BY <1>1, <1>2, <1>3, <3>3, <3>4, Counts DEF CountOK
  <2>8. WorkerOK'
    BY <1>1, <1>2, <1>6, <2>2 DEF WorkerOK
  <2> QED BY <1>5, <2>4, <2>6, <2>7, <2>8 DEF HostInv
\* No thread took it.
<1>7. ASSUME refused' = Append(refused, Popped), UNCHANGED <<crew, chan, hpc>>
      PROVE  HostInv'
  <2>1. refused' \in Seq(Sizes) /\ Len(refused') = Len(refused) + 1
    BY <1>1, <1>4, <1>7 DEF Types
  <2>2. Types'
    <3>1. sent' \in Nat
      BY <1>2, <1>3
    <3> QED BY <1>1, <1>2, <1>4, <1>7, <2>1, <3>1 DEF Types
  <2>3. \A g \in Hands : Job(g)' = Job(g)
    BY <1>7 DEF Job
  <2>4. CrewOK'
    BY <1>1, <1>2, <1>3, <1>7, <2>3, Crews DEF CrewOK
  <2>5. CountOK'
    <3>1. Sending' = Sending /\ Holding' = Holding
      BY <1>7, <2>3 DEF Sending, Holding
    <3>2. Pending' = Pending
      BY <1>2, <1>3, <2>1, SMTT(60) DEF Pending
    <3> QED BY <1>1, <1>2, <3>1, <3>2 DEF CountOK
  <2>6. WorkerOK'
    BY <1>1, <1>2, <1>7 DEF WorkerOK
  <2> QED BY <1>5, <2>2, <2>4, <2>5, <2>6 DEF HostInv
<1>8. CASE sent < crew /\ chan' = [chan EXCEPT ![sent + 1] = Append(@, Popped)]
           /\ UNCHANGED <<crew, refused, hpc>>
  <2>1. sent + 1 \in Hands /\ sent + 1 <= crew
    BY <1>3, <1>8 DEF Hands
  <2>2. ~Job(sent + 1)
    BY <1>1, <1>2, <1>3, <2>1 DEF CrewOK
  <2>3. hpc[sent + 1] = "wait"
    BY <1>1, <2>1, <2>2 DEF CrewOK, Job
  <2>4. \A g \in Hands : g <= crew' <=> (g <= crew \/ g = sent + 1)
    BY <1>8, <2>1
  <2>5. /\ sent + 1 <= sent + 1 /\ refused' = refused /\ hpc' = hpc
        /\ hpc'[sent + 1] = "wait" /\ crew' \in 0..MaxWorkers
    BY <1>3, <1>8, <2>3
  <2>6. chan' = [chan EXCEPT ![sent + 1] = Append(@, Popped)]
    BY <1>8
  <2> QED BY <1>6, <2>1, <2>2, <2>4, <2>5, <2>6
<1>9. CASE sent >= crew /\ crew' = crew + 1
           /\ chan' = [chan EXCEPT ![crew + 1] = Append(@, Popped)]
           /\ hpc' = [hpc EXCEPT ![crew + 1] = "wait"] /\ UNCHANGED refused
  <2>1. crew + 1 \in Hands /\ crew + 1 <= sent + 1 /\ crew' \in 0..MaxWorkers
    BY <1>2, <1>3, <1>9 DEF Hands
  <2>2. ~Job(crew + 1)
    <3>1. hpc[crew + 1] = "absent"
      BY <1>1, <1>3, <2>1 DEF CrewOK
    <3> QED BY <1>1, <2>1, <3>1 DEF CrewOK, Job
  <2>3. hpc'[crew + 1] = "wait"
    BY <1>1, <1>9, <2>1, Crews DEF Types
  <2>4. \A g \in Hands : g <= crew' <=> (g <= crew \/ g = crew + 1)
    BY <1>3, <1>9, Crews
  <2> QED BY <1>6, <1>9, <2>1, <2>2, <2>3, <2>4
<1> QED BY <1>7, <1>8, <1>9 DEF Dispatch

\* The refused jobs are dropped.
LEMMA DispatchedKeeps ==
  ASSUME HostInv, Dispatched
  PROVE  HostInv'
<1>1. Types /\ WorkerOK /\ CrewOK /\ JobsOK /\ CountOK
  BY DEF HostInv
<1>2. /\ UNCHANGED <<guest, pool, crew, taken, sent, refused, parts, chan, hpc, mem, at, done>>
      /\ gpc = "dispatch" /\ gpc' = "collect" /\ sent = deal.jobs
      /\ senders' = senders - Len(refused)
      /\ deal'.refs = deal.refs - Len(refused) /\ deal'.jobs = deal.jobs
      /\ used' = used - Total(refused)
  BY <1>1 DEF Dispatched, hvars, Types
<1>3. /\ senders \in Int /\ deal.refs \in Int /\ Len(refused) \in Nat /\ deal.jobs \in Nat
      /\ MaxWorkers \in Nat /\ used \in Int /\ Total(refused) \in Nat
  BY <1>1, Crews, SeqTotal DEF Types
<1>4. Types'
  <2>1. deal' \in [jobs : Nat, next : Nat, block : Nat \ {0}, failed : BOOLEAN, refs : Int]
    <3>1. deal.refs - Len(refused) \in Int
      BY <1>3
    <3> QED BY <1>1, <3>1 DEF Dispatched, Types
  <2>2. senders' \in Int /\ used' \in Int
    BY <1>2, <1>3
  <2> QED BY <1>1, <1>2, <2>1, <2>2 DEF Types
<1>5. Sending' = Sending /\ Holding' = Holding
  BY <1>2 DEF Sending, Holding, Job
<1>6. Pending = Len(refused) /\ Pending' = 0
  BY <1>2, <1>3 DEF Pending
<1>7. CountOK'
  <2>1. Cardinality(Sending) \in Nat /\ Cardinality(Holding) \in Nat
    BY Counts
  <2>2. senders = Pending + Cardinality(Sending) /\ senders <= MaxWorkers
    BY <1>1 DEF CountOK
  <2>3. deal.refs = 1 + Pending + Cardinality(Holding) /\ deal.refs <= MaxWorkers + 1
    BY <1>1, <1>2 DEF CountOK
  <2>4. senders' = Pending' + Cardinality(Sending') /\ senders' <= MaxWorkers
    BY <1>2, <1>3, <1>5, <1>6, <2>1, <2>2, SMTT(60)
  <2>5. deal'.refs = 1 + Pending' + Cardinality(Holding') /\ deal'.refs <= MaxWorkers + 1
    BY <1>2, <1>3, <1>5, <1>6, <2>1, <2>3, SMTT(60)
  <2> QED BY <1>2, <2>4, <2>5 DEF CountOK
<1>8. CrewOK' /\ WorkerOK'
  BY <1>1, <1>2 DEF CrewOK, WorkerOK, Job
<1>9. JobsOK'
  <2>1. taken = <<>>
    BY <1>1, <1>2, <1>3, EmptySeq DEF JobsOK, Types
  <2> QED BY <1>1, <1>2, <2>1 DEF JobsOK
<1> QED BY <1>4, <1>7, <1>8, <1>9 DEF HostInv

\* No sender is left: no hand has a job.
LEMMA CollectKeeps ==
  ASSUME HostInv, Collect
  PROVE  HostInv'
<1>1. Types /\ WorkerOK /\ CrewOK /\ JobsOK /\ CountOK
  BY DEF HostInv
<1>2. /\ UNCHANGED <<guest, pool, crew, taken, sent, refused, used, senders, parts, chan,
                     hpc, mem, at, done>>
      /\ gpc = "collect" /\ gpc' = "inner" /\ senders = 0
      /\ deal'.refs = deal.refs /\ deal'.jobs = deal.jobs
  BY <1>1 DEF Collect, hvars, Types
<1>3. Types'
  <2>1. deal' \in [jobs : Nat, next : Nat, block : Nat \ {0}, failed : BOOLEAN, refs : Int]
    BY <1>1 DEF Collect, Types
  <2> QED BY <1>1, <1>2, <2>1 DEF Types
<1>4. Sending = {} /\ Pending = 0 /\ Pending' = 0
  <2>1. Pending = 0 /\ Pending' = 0
    BY <1>2 DEF Pending
  <2>2. Cardinality(Sending) = 0
    BY <1>1, <1>2, <2>1, Counts DEF CountOK
  <2> QED BY <2>1, <2>2, Counts, FS_EmptySet
<1>5. Sending' = Sending /\ Holding' = Holding
  BY <1>2 DEF Sending, Holding, Job
<1>6. CountOK'
  BY <1>1, <1>2, <1>4, <1>5 DEF CountOK
<1>7. CrewOK'
  <2>1. \A h \in Hands : ~Job(h) /\ ~Job(h)'
    BY <1>4, <1>5 DEF Sending
  <2> QED BY <1>1, <1>2, <2>1 DEF CrewOK
<1>8. JobsOK' /\ WorkerOK'
  BY <1>1, <1>2 DEF JobsOK, WorkerOK
<1> QED BY <1>3, <1>6, <1>7, <1>8 DEF HostInv

\* The part of the calling thread.
LEMMA EndInlineKeeps ==
  ASSUME HostInv, EndInline
  PROVE  HostInv'
<1>1. Types /\ WorkerOK /\ CrewOK /\ JobsOK /\ CountOK /\ 0 \in Threads
  BY Crews DEF HostInv
<1>2. /\ UNCHANGED <<guest, used, pool, crew, taken, sent, refused, deal, senders, chan, at, done>>
      /\ hpc[0] = "end" /\ hpc'[0] = "absent" /\ mem'[0] = None
      /\ \A g \in Threads \ {0} : hpc'[g] = hpc[g] /\ mem'[g] = mem[g]
      /\ gpc = "await" /\ gpc' = "inner"
  BY <1>1 DEF EndInline, GoTo, Types, CrewOK
<1>3. Types'
  <2>1. hpc' \in [Threads -> HandPcs]
    BY <1>1 DEF EndInline, GoTo, Types, HandPcs
  <2>2. mem' \in [Threads -> Sizes]
    BY <1>1 DEF EndInline, Types, Sizes
  <2>3. Part(0) \in [worker : Sizes, done : SUBSET Elems]
    BY <1>1 DEF Part, Types
  <2>4. parts' \in Seq([worker : Sizes, done : SUBSET Elems])
    BY <1>1, <2>3 DEF EndInline, Types
  <2> QED BY <1>1, <1>2, <2>1, <2>2, <2>4 DEF Types
<1>4. \A g \in Hands : Job(g)' = Job(g) /\ ~Job(g)
  BY <1>1, <1>2, Crews DEF Job, CrewOK
<1>5. CrewOK'
  BY <1>1, <1>2, <1>4, Crews DEF CrewOK
<1>6. JobsOK'
  BY <1>1, <1>2 DEF JobsOK
<1>7. CountOK'
  <2>1. Sending' = Sending
    BY <1>4 DEF Sending
  <2>2. Holding' = {} /\ Holding = {}
    BY <1>4 DEF Holding, Sending
  <2>3. Pending' = Pending
    BY <1>2 DEF Pending
  <2> QED BY <1>1, <1>2, <2>1, <2>2, <2>3 DEF CountOK
<1>8. WorkerOK'
  BY <1>1, <1>2 DEF WorkerOK
<1> QED BY <1>3, <1>5, <1>6, <1>7, <1>8 DEF HostInv

\* The workers of the parts, and those that go back to the pool.
LEMMA Kept ==
  ASSUME Types
  PROVE  /\ Workers(parts) \in [1..Len(parts) -> Sizes] /\ Workers(parts) \in Seq(Sizes)
         /\ Reusable \subseteq 1..Len(parts) /\ Len(parts) \in Nat
         /\ Back \in Seq(Sizes)
<1>1. parts \in Seq([worker : Sizes, done : SUBSET Elems]) /\ DOMAIN parts = 1..Len(parts)
      /\ Len(parts) \in Nat
  BY DEF Types
<1>2. \A i \in 1..Len(parts) : parts[i].worker \in Sizes
  <2>1. \A i \in 1..Len(parts) : parts[i] \in [worker : Sizes, done : SUBSET Elems]
    BY <1>1, ElementOfSeq
  <2> QED BY <2>1
<1>3. Workers(parts) \in [1..Len(parts) -> Sizes]
  BY <1>1, <1>2 DEF Workers
<1>4. Workers(parts) \in Seq(Sizes)
  BY <1>1, <1>3, SeqDef
<1>5. Reusable \subseteq 1..Len(parts)
  BY <1>1 DEF Reusable
<1>6. /\ Cardinality(Reusable) \in Nat
      /\ InOrder(Reusable) \in [1..Cardinality(Reusable) -> Reusable]
  <2>1. IsFiniteSet(Reusable)
    <3>1. IsFiniteSet(1..Len(parts))
      BY <1>1, FS_Interval
    <3> QED BY <1>5, <3>1, FS_Subset
  <2> QED BY <1>1, <1>5, <2>1, InOrderIs, FS_CardinalityType
<1>7. Back \in [1..Cardinality(Reusable) -> Sizes]
  BY <1>2, <1>5, <1>6 DEF Back
<1>8. Back \in Seq(Sizes)
  BY <1>6, <1>7, SeqDef
<1> QED BY <1>1, <1>3, <1>4, <1>5, <1>8

\* The end of run_all.
LEMMA FinishKeeps ==
  ASSUME HostInv, Finish
  PROVE  HostInv'
<1>1. Types /\ WorkerOK /\ CrewOK /\ JobsOK /\ CountOK
  BY DEF HostInv
<1> DEFINE back == IF deal.refs = 1 THEN Back ELSE <<>>
<1>2. /\ UNCHANGED <<guest, crew, taken, sent, refused, senders, chan, hpc, mem, at, done>>
      /\ gpc = "inner" /\ gpc' = "run"
      /\ deal'.refs = deal.refs - 1 /\ deal'.jobs = deal.jobs
      /\ parts' = <<>>
      /\ pool' = pool \o back
      /\ used' = used - (Total(Workers(parts)) - Total(back))
  BY <1>1 DEF Finish, hvars, Types
<1>3. back \in Seq(Sizes)
  BY <1>1, Kept, EmptySeq
<1> HIDE DEF back
<1>4. Types'
  <2>1. pool' \in Seq(Sizes)
    BY <1>1, <1>2, <1>3 DEF Types
  <2>2. Total(Workers(parts)) \in Nat /\ Total(back) \in Nat
    BY <1>1, <1>3, Kept, SeqTotal
  <2>3. used' \in Int
    BY <1>1, <1>2, <2>2 DEF Types
  <2>4. deal' \in [jobs : Nat, next : Nat, block : Nat \ {0}, failed : BOOLEAN, refs : Int]
    <3>1. deal.refs - 1 \in Int
      BY <1>1 DEF Types
    <3> QED BY <1>1, <3>1 DEF Finish, Types
  <2>5. parts' \in Seq([worker : Sizes, done : SUBSET Elems])
    BY <1>2
  <2> QED BY <1>1, <1>2, <2>1, <2>3, <2>4, <2>5 DEF Types
<1>5. Sending' = Sending /\ Holding' = Holding /\ \A h \in Hands : Job(h)' = Job(h) /\ ~Job(h)
  BY <1>1, <1>2 DEF Sending, Holding, Job, CrewOK
<1>6. CrewOK' /\ WorkerOK'
  BY <1>1, <1>2, <1>5 DEF CrewOK, WorkerOK
<1>7. JobsOK'
  BY <1>1, <1>2 DEF JobsOK
<1>8. CountOK'
  <2>1. senders = 0 /\ deal.refs = 1 /\ senders' = 0 /\ deal'.refs = 0
    BY <1>2, Quiet
  <2>2. Cardinality(Sending') = 0 /\ Cardinality(Holding') = 0
    BY <1>5, NoJobs
  <2>3. Pending' = 0
    BY <1>2 DEF Pending
  <2> QED BY <1>2, <2>1, <2>2, <2>3, Crews DEF CountOK
<1> QED BY <1>4, <1>6, <1>7, <1>8 DEF HostInv

\* No thread is at work and no store but the run's own exists at the start.
LEMMA HostInit ==
  ASSUME Init
  PROVE  HostInv
<1>1. Types
  <2>1. 0 \in 0..MaxWorkers /\ 1 \in Nat \ {0}
    BY Crews
  <2> QED BY <2>1 DEF Init, Types, HandPcs, Sizes
<1>2. \A h \in Threads : hpc[h] = "absent" /\ mem[h] = None
  BY DEF Init
<1>3. \A h \in Hands : ~Job(h) /\ chan[h] = <<>>
  BY <1>2, Crews DEF Init, Job
<1>4. CrewOK
  BY <1>2, <1>3, Crews DEF CrewOK, Init
<1>5. JobsOK /\ WorkerOK
  BY <1>2 DEF JobsOK, WorkerOK, Init
<1>6. CountOK
  <2>1. senders = 0 /\ deal.refs = 0 /\ gpc = "run" /\ Pending = 0
    BY DEF Init, Pending
  <2> QED BY <1>3, <2>1, NoJobs, Crews DEF CountOK
<1> QED BY <1>1, <1>4, <1>5, <1>6 DEF HostInv

\* Every step keeps HostInv.
LEMMA HostStepKeeps ==
  ASSUME HostInv, [Next]_vars
  PROVE  HostInv'
<1>1. CASE Ticker \/ UNCHANGED vars
  <2>1. UNCHANGED <<gpc, guest, used, pool, crew, taken, sent, refused, deal, senders, parts,
                    chan, hpc, mem, at, done>>
    BY <1>1 DEF Ticker, Tick, IncrementEpoch, vars, gvars, cvars, hvars
  <2> QED BY <2>1 DEF HostInv, Types, CrewOK, JobsOK, CountOK, WorkerOK, Sending, Holding,
                      Pending, Job
<1>2. CASE HostStep
  BY <1>2, RunInlineKeeps, DispatchKeeps, DispatchedKeeps, CollectKeeps, FinishKeeps,
     EndInlineKeeps DEF HostStep
<1>3. CASE Grow \/ StartChild
  BY <1>3, GuestKeeps
<1>4. CASE \E w \in 1..Least(MaxWorkers, NElems) : Offer(w)
  BY <1>4, OfferKeeps
<1>5. CASE \E h \in Threads : HandStep(h)
  BY <1>5, HandStepKeeps
<1>6. CASE \E h \in Hands : CrewStep(h)
  BY <1>6, RecvKeeps, DropDealKeeps, SendKeeps, DropBackKeeps DEF CrewStep, HandEnd
<1> QED BY <1>1, <1>2, <1>3, <1>4, <1>5, <1>6 DEF Next

\* The counts of senders and handles, and which threads have a job and a
\* worker, are right in every reachable state.
THEOREM HostInvariant == Spec => []HostInv
<1>1. Init => HostInv
  BY HostInit
<1>2. HostInv /\ [Next]_vars => HostInv'
  BY HostStepKeeps
<1> QED BY <1>1, <1>2, PTL DEF Spec

\* Arc::into_inner never throws a complete offer away: when the last part is
\* in, run_all's own handle on the deal is the only one left.
THEOREM DealIsAlone == Spec => []DealAlone
<1>1. HostInv => DealAlone
  BY Quiet DEF DealAlone
<1> QED BY <1>1, HostInvariant, PTL
-----------------------------------------------------------------------------
(* The budget *)

\* Nothing is held by no stores, and one store holds what it has.
LEMMA TotalFew ==
  /\ Total(<<>>) = 0
  /\ \A s \in Seq(Sizes) : Len(s) = 1 => Total(s) = Held(Head(s))
<1>1. Total(<<>>) = 0
  <2>1. <<>> \in Seq(Sizes)
    BY EmptySeq
  <2>2. <<>> \in [1..Len(<<>>) -> Sizes]
    BY <2>1, SeqTotal
  <2>3. 1..Len(<<>>) = {}
    OBVIOUS
  <2>4. \A i \in 1..Len(<<>>) : (<<>>)[i] = None
    BY <2>3
  <2> QED BY <2>2, <2>4, TotalNone
<1>2. ASSUME NEW s \in Seq(Sizes), Len(s) = 1 PROVE Total(s) = Held(Head(s))
  <2>1. s # <<>> /\ s[Len(s)] = Head(s) /\ Head(s) \in Sizes
    BY <1>2
  <2>2. SubSeq(s, 1, Len(s) - 1) = <<>>
    BY <1>2
  <2>3. Total(s) = Total(<<>>) + Held(Head(s))
    BY <2>1, <2>2, TotalLast
  <2>4. Held(Head(s)) \in Nat
    BY <2>1 DEF Held, Sizes, None
  <2> QED BY <1>1, <2>3, <2>4
<1> QED BY <1>1, <1>2

\* The terms of the sum are numbers.
LEMMA SumTerms ==
  ASSUME Types
  PROVE  /\ guest \in Nat /\ Total(pool) \in Nat /\ Total(taken) \in Nat
         /\ Total(Workers(parts)) \in Nat /\ Total(refused) \in Nat
         /\ InThreads \in Nat /\ InChans \in Nat
         /\ \A h \in Threads : Held(mem[h]) \in Nat /\ Held(mem[h]) <= InThreads
<1>1. /\ Total(pool) \in Nat /\ Total(taken) \in Nat /\ Total(Workers(parts)) \in Nat
      /\ Total(refused) \in Nat /\ guest \in Nat
  BY SeqTotal, Kept DEF Types
<1> DEFINE D == 1..(MaxWorkers + 1)
           m == [h \in D |-> mem[h - 1]]
<1>2. IsFiniteSet(D) /\ IsFiniteSet(Hands)
  BY Crews, FS_Interval
<1>3. m \in [D -> Sizes]
  BY Crews DEF Types, Threads
<1>4. InThreads \in Nat
  BY <1>2, <1>3, UnitsFinite DEF InThreads
<1>5. InChans \in Nat
  <2>1. \A h \in Hands : Total(chan[h]) \in Nat
    BY SeqTotal DEF Types
  <2>2. [h \in Hands |-> Total(chan[h])] \in [Hands -> Sizes]
    BY <2>1 DEF Sizes
  <2> QED BY <1>2, <2>2, UnitsFinite DEF InChans
<1>6. ASSUME NEW h \in Threads PROVE Held(mem[h]) \in Nat /\ Held(mem[h]) <= InThreads
  <2>1. h + 1 \in D /\ m[h + 1] = mem[h]
    BY Crews DEF Threads
  <2>2. Held(mem[h]) \in Nat
    BY DEF Types, Held, Sizes, None
  <2> DEFINE r == [j \in D \ {h + 1} |-> m[j]]
  <2>3. InThreads = Total(r) + Held(m[h + 1])
    <3> HIDE DEF m, D
    <3>1. Total(m) = Total(r) + Held(m[h + 1])
      BY <1>2, <1>3, <2>1, TotalAt
    <3> QED BY <3>1 DEF InThreads, m, D
  <2>4. Total(r) \in Nat
    <3>1. r \in [D \ {h + 1} -> Sizes] /\ IsFiniteSet(D \ {h + 1})
      BY <1>2, <1>3, FS_RemoveElement
    <3> HIDE DEF r
    <3> QED BY <3>1, UnitsFinite
  <2> HIDE DEF r
  <2> QED BY <2>1, <2>2, <2>3, <2>4
<1> QED BY <1>1, <1>4, <1>5, <1>6

\* What one thread's worker changes, the threads' share changes.
LEMMA InThreadsChange ==
  ASSUME Types, Types', NEW h \in Threads, \A g \in Threads \ {h} : mem'[g] = mem[g]
  PROVE  InThreads' = InThreads - Held(mem[h]) + Held(mem'[h])
<1> DEFINE D == 1..(MaxWorkers + 1)
           m == [g \in D |-> mem[g - 1]]
           n == [g \in D |-> mem'[g - 1]]
<1>1. IsFiniteSet(D)
  BY Crews, FS_Interval
<1>2. m \in [D -> Sizes] /\ n \in [D -> Sizes]
  <2>1. \A g \in D : g - 1 \in Threads
    BY Crews DEF Threads
  <2>2. \A g \in Threads : mem[g] \in Sizes /\ mem'[g] \in Sizes
    BY DEF Types
  <2> QED BY <2>1, <2>2
<1>3. h + 1 \in D /\ m[h + 1] = mem[h] /\ n[h + 1] = mem'[h]
  BY Crews DEF Threads
<1>4. \A j \in D \ {h + 1} : n[j] = m[j]
  <2>1. ASSUME NEW j \in D \ {h + 1} PROVE n[j] = m[j]
    <3>1. j - 1 \in Threads \ {h}
      BY Crews DEF Threads
    <3> QED BY <3>1
  <2> QED BY <2>1
<1>5. InThreads = Total(m) /\ InThreads' = Total(n)
  BY DEF InThreads
<1> HIDE DEF m, n, D
<1>6. Total(n) = Total(m) - Held(m[h + 1]) + Held(n[h + 1])
  BY <1>1, <1>2, <1>3, <1>4, TotalChange
<1> QED BY <1>3, <1>5, <1>6

\* What one hand's channel changes, the channels' share changes.
LEMMA InChansChange ==
  ASSUME Types, Types', NEW h \in Hands, \A g \in Hands \ {h} : chan'[g] = chan[g]
  PROVE  InChans' = InChans - Total(chan[h]) + Total(chan'[h])
<1> DEFINE m == [g \in Hands |-> Total(chan[g])]
           n == [g \in Hands |-> Total(chan'[g])]
<1>1. \A g \in Hands : Total(chan[g]) \in Nat /\ Total(chan'[g]) \in Nat
  BY SeqTotal DEF Types
<1>2. m \in [Hands -> Sizes] /\ n \in [Hands -> Sizes]
  BY <1>1 DEF Sizes
<1>3. Held(m[h]) = Total(chan[h]) /\ Held(n[h]) = Total(chan'[h])
  BY <1>1 DEF Held, None
<1>4. \A j \in Hands \ {h} : n[j] = m[j]
  OBVIOUS
<1>5. InChans = Total(m) /\ InChans' = Total(n)
  BY DEF InChans
<1> HIDE DEF m, n
<1>6. Total(n) = Total(m) - Held(m[h]) + Held(n[h])
  BY <1>2, <1>4, Crews, TotalChange
<1> QED BY <1>3, <1>5, <1>6

\* A part sent adds its worker to those in parts.
LEMMA PartSent ==
  ASSUME Types, NEW h \in Threads, parts' = Append(parts, Part(h))
  PROVE  Total(Workers(parts))' = Total(Workers(parts)) + Held(mem[h])
<1> DEFINE P == [worker : Sizes, done : SUBSET Elems]
<1>1. parts \in Seq(P) /\ Part(h) \in P /\ Part(h).worker = mem[h] /\ mem[h] \in Sizes
  BY DEF Types, Part
<1>2. Workers(parts) \in Seq(Sizes) /\ Len(parts) \in Nat /\ Workers(parts) \in [1..Len(parts) -> Sizes]
  BY Kept
<1>3. Len(Workers(parts)) = Len(parts)
  BY <1>2
<1>4. Workers(parts') = Append(Workers(parts), mem[h])
  <2> HIDE DEF P
  <2>1. Len(Append(parts, Part(h))) = Len(parts) + 1 /\ DOMAIN Append(parts, Part(h)) = 1..(Len(parts) + 1)
        /\ DOMAIN parts = 1..Len(parts)
    BY <1>1
  <2>2. \A i \in 1..Len(parts) : Append(parts, Part(h))[i] = parts[i]
    BY <1>1
  <2>3. Append(parts, Part(h))[Len(parts) + 1] = Part(h)
    BY <1>1
  <2>4. Workers(parts') = [i \in 1..(Len(parts) + 1) |-> Append(parts, Part(h))[i].worker]
    BY <2>1 DEF Workers
  <2>5. /\ DOMAIN Append(Workers(parts), mem[h]) = 1..(Len(parts) + 1)
        /\ Append(Workers(parts), mem[h])[Len(parts) + 1] = mem[h]
        /\ \A i \in 1..Len(parts) : Append(Workers(parts), mem[h])[i] = Workers(parts)[i]
        /\ Append(Workers(parts), mem[h]) \in Seq(Sizes)
    BY <1>1, <1>2, <1>3
  <2>6. \A i \in 1..Len(parts) : Workers(parts)[i] = parts[i].worker
    BY <2>1 DEF Workers
  <2>7. \A i \in 1..(Len(parts) + 1) :
          Append(parts, Part(h))[i].worker = Append(Workers(parts), mem[h])[i]
    <3>1. \A i \in 1..(Len(parts) + 1) : i = Len(parts) + 1 \/ i \in 1..Len(parts)
      BY <1>2
    <3> QED BY <1>1, <2>2, <2>3, <2>5, <2>6, <3>1
  <2>8. Append(Workers(parts), mem[h]) \in [1..(Len(parts) + 1) -> Sizes]
    <3>1. Len(Append(Workers(parts), mem[h])) = Len(parts) + 1
      BY <1>1, <1>2, <1>3
    <3> QED BY <2>5, <3>1, SeqTotal
  <2> QED BY <2>4, <2>7, <2>8
<1>5. Total(Workers(parts))' = Total(Workers(parts'))
  BY DEF Workers, Total, Units
<1> QED BY <1>1, <1>2, <1>4, <1>5, TotalAppend

\* A step of Deal::run charges the budget what its worker's meter gains or
\* loses, and never past the cap.
LEMMA HandCharges ==
  ASSUME HostInv, NEW h \in Threads, HandStep(h), used \in Int, used <= Cap
  PROVE  /\ used' = used - Held(mem[h]) + Held(mem'[h])
         /\ used' <= Cap
<1>1. Types /\ WorkerOK
  BY DEF HostInv
<1>2. mem \in [Threads -> Sizes] /\ mem[h] \in Sizes /\ Held(mem[h]) \in Nat /\ Cap \in Nat
  BY <1>1, SumTerms, Crews DEF Types
<1>3. CASE Start(h)
  <2>1. CASE mem[h] = None /\ Fits(used)
    <3>1. used' = used + 1 /\ mem'[h] = 1 /\ used + 1 <= Cap
      BY <1>2, <1>3, <2>1 DEF Start, Fits
    <3> QED BY <2>1, <3>1 DEF Held, None
  <2>2. CASE ~(mem[h] = None /\ Fits(used))
    <3>1. used' = used /\ mem' = mem
      BY <1>3, <2>2 DEF Start
    <3> QED BY <1>2, <3>1
  <2> QED BY <2>1, <2>2
<1>4. CASE Arm(h) \/ Armed(h) \/ Check(h) \/ Claim(h) \/ Return(h) \/ Fault(h) \/ Interrupt(h)
  <2>1. used' = used /\ mem' = mem
    BY <1>4 DEF Arm, Armed, Check, Claim, Return, Fault, Interrupt
  <2> QED BY <1>2, <2>1
<1>5. CASE GrowWorker(h)
  <2>1. CASE Fits(used)
    <3>1. mem[h] \in Nat /\ used' = used + 1 /\ mem'[h] = mem[h] + 1 /\ used + 1 <= Cap
      BY <1>1, <1>2, <1>5, <2>1 DEF GrowWorker, Fits, WorkerOK, Sizes
    <3> QED BY <3>1 DEF Held, None
  <2>2. CASE ~Fits(used)
    <3>1. used' = used /\ mem' = mem
      BY <1>5, <2>2 DEF GrowWorker
    <3> QED BY <1>2, <3>1
  <2> QED BY <2>1, <2>2
<1>6. CASE UndoGrow(h)
  <2>1. mem[h] \in Nat \ {0} /\ used' = used - 1 /\ mem'[h] = mem[h] - 1
    BY <1>1, <1>2, <1>6 DEF UndoGrow, WorkerOK, Sizes
  <2> QED BY <1>2, <2>1 DEF Held, None
<1>7. CASE Fail(h)
  <2>1. used' = used - Held(mem[h]) /\ mem'[h] = None
    BY <1>2, <1>7 DEF Fail
  <2> QED BY <1>2, <2>1 DEF Held
<1> QED BY <1>3, <1>4, <1>5, <1>6, <1>7 DEF HandStep

\* Steps of Deal::run keep the budget exact.
LEMMA HandStepBudget ==
  ASSUME HostInv, HostInv', BudgetInv, NEW h \in Threads, HandStep(h)
  PROVE  BudgetInv'
<1>1. Types /\ Types' /\ WorkerOK
  BY DEF HostInv
<1>2. /\ UNCHANGED <<gpc, guest, pool, taken, refused, parts, chan>>
      /\ \A g \in Threads \ {h} : mem'[g] = mem[g]
  BY <1>1, HandMoves DEF gvars
<1>3. InThreads' = InThreads - Held(mem[h]) + Held(mem'[h])
  BY <1>1, <1>2, InThreadsChange
<1>4. used' = used - Held(mem[h]) + Held(mem'[h]) /\ used' <= Cap
  BY <1>1, HandCharges DEF BudgetInv, Types
<1>5. Held(mem[h]) \in Nat /\ Held(mem'[h]) \in Nat
  BY <1>1, SumTerms, Crews DEF Types, Held, Sizes, None
<1>6. Sum' = Sum - Held(mem[h]) + Held(mem'[h])
  <2>1. InChans' = InChans
    BY <1>2 DEF InChans
  <2> QED BY <1>1, <1>2, <1>3, <1>5, <2>1, SumTerms DEF Sum
<1> QED BY <1>2, <1>4, <1>6 DEF BudgetInv, AloneReachesCap

\* A job that a hand takes stays charged.
LEMMA RecvBudget ==
  ASSUME HostInv, HostInv', BudgetInv, NEW h \in Hands, Recv(h)
  PROVE  BudgetInv'
<1>1. Types /\ Types' /\ WorkerOK /\ CrewOK /\ h \in Threads
  BY Crews DEF HostInv
<1>2. /\ UNCHANGED <<gpc, guest, used, pool, taken, refused, parts>>
      /\ mem[h] = None /\ mem'[h] = Head(chan[h]) /\ chan[h] # <<>> /\ chan'[h] = Tail(chan[h])
      /\ \A g \in Threads \ {h} : mem'[g] = mem[g]
      /\ \A g \in Hands \ {h} : chan'[g] = chan[g]
  BY <1>1 DEF Recv, gvars, Types, WorkerOK
<1>3. chan[h] \in Seq(Sizes) /\ Len(chan[h]) = 1
  BY <1>1, <1>2 DEF CrewOK, Types
<1>4. chan'[h] = <<>>
  <2>1. Tail(chan[h]) \in Seq(Sizes) /\ Len(Tail(chan[h])) = 0
    BY <1>2, <1>3
  <2> QED BY <1>2, <2>1, EmptySeq
<1>5. InThreads' = InThreads + Held(Head(chan[h]))
  <2>1. InThreads' = InThreads - Held(None) + Held(Head(chan[h]))
    BY <1>1, <1>2, InThreadsChange
  <2> QED BY <1>1, <2>1, SumTerms DEF Held
<1>6. InChans' = InChans - Held(Head(chan[h])) + 0
  BY <1>1, <1>2, <1>3, <1>4, InChansChange, TotalFew
<1>7. Held(Head(chan[h])) \in Nat
  <2>1. Head(chan[h]) \in Sizes
    BY <1>2, <1>3
  <2> QED BY <2>1 DEF Held, Sizes, None
<1>8. Sum' = Sum
  BY <1>1, <1>2, <1>5, <1>6, <1>7, SumTerms, SMTT(60) DEF Sum
<1> QED BY <1>2, <1>8 DEF BudgetInv, AloneReachesCap

\* A worker that goes from a thread into a part stays charged.
LEMMA PartBudget ==
  ASSUME HostInv, HostInv', BudgetInv, NEW h \in Threads, Send(h) \/ (h = 0 /\ EndInline)
  PROVE  BudgetInv'
<1>1. Types /\ Types' /\ CrewOK
  BY DEF HostInv
<1>2. /\ UNCHANGED <<guest, used, pool, taken, refused, chan>>
      /\ mem'[h] = None /\ \A g \in Threads \ {h} : mem'[g] = mem[g]
      /\ parts' = Append(parts, Part(h))
      /\ gpc' = gpc \/ (gpc = "await" /\ gpc' = "inner")
  BY <1>1 DEF Send, EndInline, gvars, Types, CrewOK
<1>3. Held(mem[h]) \in Nat
  BY <1>1, SumTerms
<1>4. InThreads' = InThreads - Held(mem[h]) + 0
  BY <1>1, <1>2, InThreadsChange DEF Held
<1>5. Total(Workers(parts))' = Total(Workers(parts)) + Held(mem[h])
  BY <1>1, <1>2, PartSent
<1>6. Sum' = Sum
  <2>1. InChans' = InChans
    BY <1>2 DEF InChans
  <2>2. (IF gpc' = "dispatch" THEN Total(refused') ELSE 0) = IF gpc = "dispatch" THEN Total(refused) ELSE 0
    BY <1>2
  <2> QED BY <1>1, <1>2, <1>3, <1>4, <1>5, <2>1, <2>2, SumTerms DEF Sum
<1> QED BY <1>2, <1>6 DEF BudgetInv, AloneReachesCap

\* Steps that move no worker.
LEMMA StillBudget ==
  ASSUME BudgetInv,
         UNCHANGED <<guest, used, pool, taken, refused, parts, chan, mem>>,
         gpc' = gpc \/ (gpc = "collect" /\ gpc' = "inner")
  PROVE  BudgetInv'
<1>1. Sum' = Sum
  BY DEF Sum, InThreads, InChans
<1> QED BY <1>1 DEF BudgetInv, AloneReachesCap

\* While the guest runs the budget holds its own memory and the pool's.
LEMMA RunningSum ==
  ASSUME HostInv, gpc \in {"run", "inner", "oom"}
  PROVE  Sum = guest + Total(pool) + Total(Workers(parts))
<1>1. Types /\ JobsOK
  BY DEF HostInv
<1>2. \A h \in Threads : mem[h] = None
  BY Quiet
<1>3. InThreads = 0
  <2>1. \A g \in 1..(MaxWorkers + 1) : g - 1 \in Threads
    BY Crews DEF Threads
  <2>2. [h \in 1..(MaxWorkers + 1) |-> mem[h - 1]] = [h \in 1..(MaxWorkers + 1) |-> None]
    BY <1>2, <2>1
  <2> DEFINE m == [h \in 1..(MaxWorkers + 1) |-> None]
  <2>3. m \in [1..(MaxWorkers + 1) -> Sizes] /\ \A i \in 1..(MaxWorkers + 1) : m[i] = None
    BY DEF Sizes
  <2> HIDE DEF m
  <2>4. Total(m) = 0
    BY <2>3, TotalNone
  <2> QED BY <2>2, <2>4 DEF InThreads, m
<1>4. InChans = 0
  <2>1. \A h \in Hands : Total(chan[h]) = 0
    BY Quiet, TotalFew
  <2> DEFINE m == [h \in Hands |-> Total(chan[h])]
  <2>2. m \in [Hands -> Sizes]
    BY <2>1 DEF Sizes
  <2>3. \A h \in Hands : m[h] = 0
    BY <2>1
  <2>4. Units(m) = {}
    <3> HIDE DEF m
    <3>1. ASSUME NEW u \in Units(m) PROVE FALSE
      BY <2>2, <2>3, UnitIn
    <3> QED BY <3>1
  <2> QED BY <2>4, FS_EmptySet DEF InChans, Total
<1>5. Total(taken) = 0
  BY <1>1, TotalFew DEF JobsOK
<1> QED BY <1>1, <1>3, <1>4, <1>5, SumTerms DEF Sum

\* The same after a step.
LEMMA RunningSumNext ==
  (HostInv /\ gpc \in {"run", "inner", "oom"} => Sum = guest + Total(pool) + Total(Workers(parts)))'
<1>1. HostInv /\ gpc \in {"run", "inner", "oom"} => Sum = guest + Total(pool) + Total(Workers(parts))
  BY RunningSum
<1> QED BY <1>1, PTL

\* The run's own instance: growth takes the pool's memory before it is
\* refused, so that it is refused only at the cap; a child instance finds
\* the pool empty.
LEMMA GuestBudget ==
  ASSUME HostInv, HostInv', BudgetInv, Grow \/ StartChild
  PROVE  BudgetInv'
<1>1. Types /\ Types' /\ JobsOK
  BY DEF HostInv
<1>2. /\ UNCHANGED parts /\ gpc = "run" /\ gpc' \in {"run", "oom"} /\ parts = <<>>
  BY <1>1 DEF Grow, StartChild, cvars, JobsOK
<1> DEFINE G == guest
           P == Total(pool)
           W == Total(Workers(parts))
<1>3. G \in Nat /\ P \in Nat /\ W \in Nat /\ Cap \in Nat /\ used \in Int
  BY <1>1, SumTerms, Crews DEF Types
<1>4. used = G + P + W /\ used <= Cap
  BY <1>2, RunningSum DEF BudgetInv
<1>5. Sum' = guest' + Total(pool') + W
  BY <1>2, RunningSumNext
<1>6. W = 0
  <2>1. Workers(<<>>) = <<>>
    BY DEF Workers
  <2> QED BY <1>2, <2>1, TotalFew
<1>7. Total(<<>>) = 0
  BY TotalFew
<1> HIDE DEF W
<1>8. CASE Grow
  <2>1. CASE Fits(used)
    <3>1. gpc' = "run" /\ guest' = G + 1 /\ used' = used + 1 /\ pool' = pool /\ used + 1 <= Cap
      BY <1>2, <1>8, <2>1 DEF Grow, Fits
    <3> QED BY <1>3, <1>4, <1>5, <3>1 DEF BudgetInv, AloneReachesCap
  <2>2. CASE ~Fits(used) /\ Fits(used - P)
    <3>1. gpc' = "run" /\ guest' = G + 1 /\ used' = used - P + 1 /\ pool' = <<>> /\ used - P + 1 <= Cap
      BY <1>2, <1>8, <2>2 DEF Grow, Fits
    <3>2. used' = Sum' /\ used' <= Cap
      BY <1>3, <1>4, <1>5, <1>7, <3>1
    <3> QED BY <3>1, <3>2 DEF BudgetInv, AloneReachesCap
  <2>3. CASE ~Fits(used) /\ ~Fits(used - P)
    <3>1. guest' = G /\ used' = used - P /\ pool' = <<>> /\ ~(used - P + 1 <= Cap)
      BY <1>2, <1>8, <2>3 DEF Grow, Fits
    <3>2. used' = Sum' /\ used' <= Cap
      BY <1>3, <1>4, <1>5, <1>7, <3>1
    <3>3. guest' = Cap
      BY <1>3, <1>4, <1>6, <3>1
    <3> QED BY <3>2, <3>3 DEF BudgetInv, AloneReachesCap
  <2> QED BY <2>1, <2>2, <2>3
<1>9. CASE StartChild
  <2>1. gpc' = "run" /\ guest' = G /\ used' = used - P /\ pool' = <<>>
    BY <1>2, <1>9 DEF StartChild
  <2> QED BY <1>3, <1>4, <1>5, <1>7, <2>1 DEF BudgetInv, AloneReachesCap
<1> QED BY <1>8, <1>9

\* The workers an offer takes leave the pool, and stay charged.
LEMMA OfferBudget ==
  ASSUME HostInv, HostInv', BudgetInv, NEW w \in 1..Least(MaxWorkers, NElems), Offer(w)
  PROVE  BudgetInv'
<1>1. Types /\ Types' /\ JobsOK
  BY DEF HostInv
<1>2. w \in Nat /\ Len(pool) \in Nat /\ pool \in Seq(Sizes)
  BY <1>1, Crews DEF Least, Types
<1>3. /\ UNCHANGED <<guest, used, chan, mem>>
      /\ gpc = "run" /\ gpc' \in {"inline", "dispatch"}
      /\ parts = <<>> /\ parts' = <<>> /\ refused' = <<>> /\ taken = <<>>
  BY <1>1 DEF Offer, hvars, JobsOK
<1>4. Total(pool) = Total(pool') + Total(taken')
  <2> DEFINE k == IF Len(pool) > w THEN Len(pool) - w ELSE 0
  <2>1. k \in 0..Len(pool)
    BY <1>2
  <2>2. pool' = SubSeq(pool, 1, k) /\ taken' = SubSeq(pool, k + 1, Len(pool))
    BY DEF Offer
  <2> HIDE DEF k
  <2> QED BY <1>2, <2>1, <2>2, TotalCut
<1>5. Total(taken) = 0 /\ Total(refused') = 0
  BY <1>3, TotalFew
<1>6. InThreads' = InThreads /\ InChans' = InChans
  BY <1>3 DEF InThreads, InChans
<1>7. Sum' = Sum
  <2>1. (IF gpc' = "dispatch" THEN Total(refused') ELSE 0) = 0 /\ (IF gpc = "dispatch" THEN Total(refused) ELSE 0) = 0
    BY <1>3, <1>5
  <2>2. Total(Workers(parts)') = Total(Workers(parts))
    BY <1>3 DEF Workers
  <2>3. /\ Sum = guest + Total(pool) + Total(taken) + Total(Workers(parts)) + 0 + InThreads + InChans
        /\ Sum' = guest + Total(pool') + Total(taken') + Total(Workers(parts)) + 0 + InThreads + InChans
    BY <1>3, <1>6, <2>1, <2>2 DEF Sum
  <2>4. Total(pool') \in Nat /\ Total(taken') \in Nat
    BY <1>1, SeqTotal DEF Types
  <2> QED BY <1>1, <1>4, <1>5, <2>3, <2>4, SumTerms
<1> QED BY <1>3, <1>7 DEF BudgetInv, AloneReachesCap

\* A worker popped for the calling thread stays charged.
LEMMA RunInlineBudget ==
  ASSUME HostInv, HostInv', BudgetInv, RunInline
  PROVE  BudgetInv'
<1>1. Types /\ Types' /\ CrewOK /\ WorkerOK /\ 0 \in Threads
  BY Crews DEF HostInv
<1>2. /\ UNCHANGED <<guest, used, pool, refused, parts, chan>>
      /\ gpc = "inline" /\ gpc' = "await" /\ taken' = Rest
      /\ mem'[0] = Popped /\ \A g \in Threads \ {0} : mem'[g] = mem[g]
  BY <1>1 DEF RunInline, cvars, Types
<1>3. mem[0] = None
  BY <1>1, <1>2 DEF CrewOK, WorkerOK
<1>4. Popped \in Sizes /\ Total(taken) = Total(taken') + Held(Popped)
  BY <1>1, <1>2, Pops
<1>5. Held(Popped) \in Nat
  BY <1>4 DEF Held, Sizes, None
<1>6. InThreads' = InThreads - 0 + Held(Popped)
  BY <1>1, <1>2, <1>3, InThreadsChange DEF Held
<1>7. Sum' = Sum
  <2>1. InChans' = InChans
    BY <1>2 DEF InChans
  <2>2. Total(taken') \in Nat
    BY <1>1, SeqTotal DEF Types
  <2> QED BY <1>1, <1>2, <1>4, <1>5, <1>6, <2>1, <2>2, SumTerms DEF Sum
<1> QED BY <1>2, <1>7 DEF BudgetInv, AloneReachesCap

\* So does one popped for a job, dispatched or refused.
LEMMA DispatchBudget ==
  ASSUME HostInv, HostInv', BudgetInv, Dispatch
  PROVE  BudgetInv'
<1>1. Types /\ Types'
  BY DEF HostInv
<1>2. /\ UNCHANGED <<gpc, guest, used, pool, parts, mem>>
      /\ gpc = "dispatch" /\ taken' = Rest
  BY DEF Dispatch
<1>3. Popped \in Sizes /\ Total(taken) = Total(taken') + Held(Popped)
  BY <1>1, <1>2, Pops
<1>4. Held(Popped) \in Nat /\ Total(taken') \in Nat
  BY <1>1, <1>3, SeqTotal DEF Held, Sizes, None, Types
<1>5. InThreads' = InThreads
  BY <1>2 DEF InThreads
<1>6. InChans' + Total(refused') = InChans + Total(refused) + Held(Popped)
  <2>1. ASSUME NEW h \in Hands, chan' = [chan EXCEPT ![h] = Append(@, Popped)], refused' = refused
        PROVE  InChans' + Total(refused') = InChans + Total(refused) + Held(Popped)
    <3>1. /\ \A g \in Hands \ {h} : chan'[g] = chan[g]
          /\ chan'[h] = Append(chan[h], Popped) /\ chan[h] \in Seq(Sizes)
      BY <1>1, <2>1 DEF Types
    <3>2. Total(chan'[h]) = Total(chan[h]) + Held(Popped) /\ Total(chan[h]) \in Nat
      BY <1>3, <3>1, TotalAppend, SeqTotal
    <3>3. InChans' = InChans - Total(chan[h]) + Total(chan'[h])
      BY <1>1, <3>1, InChansChange
    <3> QED BY <1>1, <1>4, <2>1, <3>2, <3>3, SumTerms
  <2>2. CASE sent < crew /\ chan' = [chan EXCEPT ![sent + 1] = Append(@, Popped)] /\ refused' = refused
    <3>1. sent + 1 \in Hands
      BY <1>1, <2>2, Crews DEF Types, Hands
    <3> QED BY <2>1, <2>2, <3>1
  <2>3. CASE crew' = crew + 1 /\ chan' = [chan EXCEPT ![crew + 1] = Append(@, Popped)] /\ refused' = refused
    <3>1. crew + 1 \in Hands
      BY <1>1, <2>3, Crews DEF Types, Hands
    <3> QED BY <2>1, <2>3, <3>1
  <2>4. CASE refused' = Append(refused, Popped) /\ chan' = chan
    <3>1. Total(refused') = Total(refused) + Held(Popped)
      BY <1>1, <1>3, <2>4, TotalAppend DEF Types
    <3>2. InChans' = InChans
      BY <2>4 DEF InChans
    <3> QED BY <1>1, <1>4, <3>1, <3>2, SumTerms
  <2> QED BY <2>2, <2>3, <2>4 DEF Dispatch
<1>7. Sum' = Sum
  <2>1. /\ Sum = guest + Total(pool) + Total(taken) + Total(Workers(parts)) + Total(refused) + InThreads + InChans
        /\ Sum' = guest + Total(pool) + Total(taken') + Total(Workers(parts)) + Total(refused') + InThreads + InChans'
    BY <1>2, <1>5 DEF Sum
  <2>2. Total(refused') \in Nat /\ InChans' \in Nat
    <3>1. Total(refused') \in Nat
      BY <1>1, SeqTotal DEF Types
    <3>2. InChans' \in Nat
      <4>1. \A h \in Hands : Total(chan'[h]) \in Nat
        BY <1>1, SeqTotal DEF Types
      <4>2. [h \in Hands |-> Total(chan'[h])] \in [Hands -> Sizes]
        BY <4>1 DEF Sizes
      <4> QED BY <4>2, Crews, UnitsFinite DEF InChans
    <3> QED BY <3>1, <3>2
  <2> QED BY <1>1, <1>3, <1>4, <1>6, <2>1, <2>2, SumTerms
<1> QED BY <1>2, <1>7 DEF BudgetInv, AloneReachesCap

\* The workers of refused jobs are dropped, and given back.
LEMMA DispatchedBudget ==
  ASSUME HostInv, HostInv', BudgetInv, Dispatched
  PROVE  BudgetInv'
<1>1. Types /\ Types'
  BY DEF HostInv
<1>2. /\ UNCHANGED <<guest, pool, taken, parts, chan, mem>>
      /\ gpc = "dispatch" /\ gpc' = "collect" /\ used' = used - Total(refused)
  BY DEF Dispatched, hvars
<1>3. InThreads' = InThreads /\ InChans' = InChans
  BY <1>2 DEF InThreads, InChans
<1>4. Sum' = Sum - Total(refused)
  BY <1>1, <1>2, <1>3, SumTerms DEF Sum
<1>5. used' <= Cap
  <2>1. used \in Int /\ used <= Cap /\ Total(refused) \in Nat /\ Cap \in Nat
    BY <1>1, SumTerms, Crews DEF BudgetInv, Types
  <2> QED BY <1>2, <2>1
<1> QED BY <1>2, <1>4, <1>5 DEF BudgetInv, AloneReachesCap

\* The workers kept hold no more than those of the parts.
LEMMA BackTotal ==
  ASSUME Types
  PROVE  Total(Back) <= Total(Workers(parts))
<1> DEFINE s == Workers(parts)
           D == 1..Len(parts)
           E == 1..Cardinality(Reusable)
           f == InOrder(Reusable)
<1>1. s \in [D -> Sizes] /\ Reusable \subseteq D /\ Len(parts) \in Nat
  BY Kept
<1>2. IsFiniteSet(D)
  BY <1>1, FS_Interval
<1>3. f \in [E -> Reusable] /\ \A i, j \in E : i < j => f[i] < f[j]
  BY <1>1, InOrderIs
<1>4. Cardinality(Reusable) \in Nat
  BY <1>1, <1>2, FS_Subset, FS_CardinalityType
<1>5. f \in [E -> D]
  BY <1>1, <1>3
<1>6. \A k, l \in E : f[k] = f[l] => k = l
  <2>1. ASSUME NEW k \in E, NEW l \in E, f[k] = f[l], k # l PROVE FALSE
    <3> HIDE DEF f
    <3>1. f[k] \in Nat /\ f[l] \in Nat /\ k \in Nat /\ l \in Nat
      BY <1>1, <1>4, <1>5
    <3>2. k < l \/ l < k
      BY <2>1, <3>1
    <3>3. f[k] < f[l] \/ f[l] < f[k]
      BY <1>3, <3>2
    <3> QED BY <2>1, <3>1, <3>3
  <2> QED BY <2>1
<1>7. Back = [k \in E |-> s[f[k]]]
  <2>1. DOMAIN parts = D
    BY DEF Types
  <2>2. \A i \in D : s[i] = parts[i].worker
    BY <2>1 DEF Workers
  <2> HIDE DEF s, D
  <2> QED BY <1>5, <2>2 DEF Back
<1> HIDE DEF s, D, E, f
<1>8. Total([k \in E |-> s[f[k]]]) <= Total(s)
  BY <1>1, <1>2, <1>5, <1>6, TotalSelect
<1> QED BY <1>7, <1>8 DEF s

\* At the end of run_all what goes back to the pool stays charged, and the
\* rest is given back.
LEMMA FinishBudget ==
  ASSUME HostInv, HostInv', BudgetInv, Finish
  PROVE  BudgetInv'
<1>1. Types /\ Types'
  BY DEF HostInv
<1> DEFINE W == Total(Workers(parts))
           B == Total(Back)
<1>2. /\ UNCHANGED guest /\ gpc = "inner" /\ gpc' = "run" /\ parts' = <<>>
      /\ pool' = pool \o Back /\ used' = used - (W - B)
  <2>1. gpc = "inner" /\ deal.refs = 1
    BY Quiet DEF Finish
  <2> QED BY <2>1 DEF Finish
<1>3. Back \in Seq(Sizes) /\ B \in Nat /\ B <= W /\ W \in Nat
  BY <1>1, Kept, BackTotal, SeqTotal
<1>4. Total(pool') = Total(pool) + B
  BY <1>1, <1>2, <1>3, TotalConcat DEF Types
<1>5. Total(Workers(parts')) = 0
  <2>1. Workers(<<>>) = <<>>
    BY DEF Workers
  <2> QED BY <1>2, <2>1, TotalFew
<1> HIDE DEF W, B
<1>6. used = guest + Total(pool) + W /\ used <= Cap
  BY <1>2, RunningSum DEF BudgetInv, W
<1>7. Sum' = guest + Total(pool') + 0
  BY <1>2, <1>5, RunningSumNext
<1>8. guest \in Nat /\ Total(pool) \in Nat /\ Cap \in Nat /\ used \in Int
  BY <1>1, SumTerms, Crews DEF Types
<1>9. used' = Sum' /\ used' <= Cap
  BY <1>2, <1>3, <1>4, <1>6, <1>7, <1>8, SMTT(60)
<1> QED BY <1>2, <1>9 DEF BudgetInv, AloneReachesCap

\* The run's own instance is charged from the start.
LEMMA BudgetInit ==
  ASSUME Init
  PROVE  BudgetInv
<1>1. HostInv /\ gpc = "run" /\ guest = 1 /\ used = 1 /\ pool = <<>> /\ parts = <<>>
  BY HostInit DEF Init
<1>2. Workers(parts) = <<>>
  BY <1>1 DEF Workers
<1>3. Sum = 1 + 0 + 0
  BY <1>1, <1>2, RunningSum, TotalFew
<1> QED BY <1>1, <1>3, Crews DEF BudgetInv, AloneReachesCap

\* Every step keeps the budget exact.
LEMMA BudgetKeeps ==
  ASSUME HostInv, HostInv', BudgetInv, [Next]_vars
  PROVE  BudgetInv'
<1>1. CASE Ticker \/ UNCHANGED vars
  <2>1. UNCHANGED <<gpc, guest, used, pool, taken, refused, parts, chan, mem>>
    BY <1>1 DEF Ticker, Tick, IncrementEpoch, vars, gvars, cvars, hvars
  <2> QED BY <2>1, StillBudget
<1>2. CASE RunInline \/ Dispatch \/ Dispatched \/ Finish
  BY <1>2, RunInlineBudget, DispatchBudget, DispatchedBudget, FinishBudget
<1>3. CASE EndInline
  BY <1>3, PartBudget, Crews
<1>4. CASE Collect
  <2>1. /\ UNCHANGED <<guest, used, pool, taken, refused, parts, chan, mem>>
        /\ gpc = "collect" /\ gpc' = "inner"
    BY <1>4 DEF Collect, hvars
  <2> QED BY <2>1, StillBudget
<1>5. CASE Grow \/ StartChild
  BY <1>5, GuestBudget
<1>6. CASE \E w \in 1..Least(MaxWorkers, NElems) : Offer(w)
  BY <1>6, OfferBudget
<1>7. CASE \E h \in Threads : HandStep(h)
  BY <1>7, HandStepBudget
<1>8. CASE \E h \in Hands : CrewStep(h)
  <2>1. PICK h \in Hands : CrewStep(h)
    BY <1>8
  <2>2. CASE DropDeal(h) \/ DropBack(h)
    <3>1. UNCHANGED <<gpc, guest, used, pool, taken, refused, parts, chan, mem>>
      BY <2>2 DEF DropDeal, DropBack, gvars
    <3> QED BY <3>1, StillBudget
  <2>3. CASE Recv(h)
    BY <2>3, RecvBudget
  <2>4. CASE Send(h)
    BY <2>4, PartBudget, Crews
  <2> QED BY <2>1, <2>2, <2>3, <2>4 DEF CrewStep, HandEnd
<1> QED BY <1>1, <1>2, <1>3, <1>4, <1>5, <1>6, <1>7, <1>8 DEF Next, HostStep

\* The two invariants, together.
THEOREM BudgetInvariant == Spec => [](HostInv /\ BudgetInv)
<1>1. Init => HostInv /\ BudgetInv
  BY HostInit, BudgetInit
<1>2. HostInv /\ BudgetInv /\ [Next]_vars => HostInv' /\ BudgetInv'
  BY HostStepKeeps, BudgetKeeps
<1> QED BY <1>1, <1>2, PTL DEF Spec

\* The types of the run's invariant follow from the exact sum and the counts.
LEMMA BudgetTypes ==
  ASSUME HostInv, BudgetInv
  PROVE  TypeOK
<1>1. Types /\ CrewOK /\ JobsOK /\ CountOK
  BY DEF HostInv
<1>2. Cap \in Nat /\ MaxWorkers \in Nat
  BY Crews
<1>3. (IF gpc = "dispatch" THEN Total(refused) ELSE 0) \in Nat
  BY <1>1, SumTerms
<1>4. used \in 0..Cap /\ guest \in 0..Cap /\ InThreads <= Cap
  <2> DEFINE r == IF gpc = "dispatch" THEN Total(refused) ELSE 0
  <2>1. used = guest + Total(pool) + Total(taken) + Total(Workers(parts)) + r + InThreads + InChans
        /\ used <= Cap
    BY DEF BudgetInv, Sum
  <2>2. r \in Nat
    BY <1>3
  <2> HIDE DEF r
  <2> QED BY <1>1, <1>2, <2>1, <2>2, SumTerms
<1>5. deal.refs \in 0..(MaxWorkers + 1) /\ senders \in 0..MaxWorkers
  <2>1. Pending \in Nat
    <3>1. gpc = "dispatch" => deal.jobs \in Nat /\ sent \in Nat /\ sent <= deal.jobs /\ Len(refused) \in Nat
      BY <1>1 DEF Types, JobsOK
    <3>2. gpc = "dispatch" => deal.jobs - sent + Len(refused) \in Nat
      BY <3>1
    <3> QED BY <3>2 DEF Pending
  <2>2. Cardinality(Sending) \in Nat /\ Cardinality(Holding) \in Nat
    BY Counts
  <2> QED BY <1>1, <1>2, <2>1, <2>2 DEF CountOK
<1>6. \A h \in Hands : Len(chan[h]) <= 1
  <2>1. ASSUME NEW h \in Hands PROVE Len(chan[h]) <= 1
    <3>1. chan[h] \in Seq(Sizes) /\ Len(chan[h]) \in Nat
      BY <1>1 DEF Types
    <3>2. chan[h] = <<>> => Len(chan[h]) = 0
      OBVIOUS
    <3>3. chan[h] # <<>> => Len(chan[h]) = 1
      BY <1>1 DEF CrewOK
    <3>4. Len(chan[h]) \in {0, 1}
      BY ONLY <3>2, <3>3, Zenon
    <3>5. \A x \in {0, 1} : x <= 1
      OBVIOUS
    <3> QED BY ONLY <3>4, <3>5, Zenon
  <2> QED BY <2>1
<1>7. \A h \in Threads : mem[h] \in None..Cap /\ done[h] \subseteq Elems
  <2>1. ASSUME NEW h \in Threads PROVE mem[h] \in None..Cap
    <3>1. mem[h] \in Sizes /\ Held(mem[h]) \in Nat /\ Held(mem[h]) <= InThreads /\ InThreads \in Nat
      BY <1>1, SumTerms DEF Types
    <3> QED BY <1>2, <1>4, <3>1 DEF Held, Sizes, None
  <2> QED BY <1>1, <2>1 DEF Types
<1> QED BY <1>1, <1>4, <1>5, <1>6, <1>7 DEF TypeOK, Types

\* Budget.used is exactly what the live stores hold, and within the cap,
\* whatever was dispatched, refused, grown, undone, failed or dropped.
THEOREM BudgetIsExact == Spec => []BudgetExact
<1>1. HostInv /\ BudgetInv => BudgetExact
  BY BudgetTypes DEF BudgetInv, BudgetExact, Sum, InThreads, InChans
<1> QED BY <1>1, BudgetInvariant, PTL

\* The run's own instance is refused memory only when it holds the whole cap.
THEOREM AloneAtCap == Spec => []AloneReachesCap
<1>1. HostInv /\ BudgetInv => AloneReachesCap
  BY DEF BudgetInv
<1> QED BY <1>1, BudgetInvariant, PTL
-----------------------------------------------------------------------------
(* The results *)

\* An element stays covered if the parts stay and the only thread that moves
\* keeps it or hands it over.
LEMMA CoverStep ==
  ASSUME NEW h \in Threads, NEW i, Covered(i), deal'.block = deal.block,
         \A g \in Threads \ {h} : hpc'[g] = hpc[g] /\ at'[g] = at[g] /\ done'[g] = done[g],
         \A p \in DOMAIN parts : p \in DOMAIN parts' /\ parts'[p] = parts[p],
         With(h, i) => Covered(i)'
  PROVE  Covered(i)'
<1>1. CASE \E p \in DOMAIN parts : i \in parts[p].done
  BY <1>1 DEF Covered
<1>2. CASE \E g \in Threads \ {h} : With(g, i)
  <2>1. PICK g \in Threads \ {h} : With(g, i)
    BY <1>2
  <2>2. With(g, i)'
    BY <2>1 DEF With, BlockEnd
  <2> QED BY <2>2 DEF Covered
<1>3. CASE With(h, i)
  BY <1>3
<1> QED BY <1>1, <1>2, <1>3 DEF Covered

\* What a step of Deal::run does to the elements its thread answers for.
LEMMA HandCovers ==
  ASSUME Types, WorkerOK, NEW h \in Threads, HandStep(h), ~deal'.failed
  PROVE  /\ deal'.failed = deal.failed
         /\ deal'.next >= deal.next /\ deal.next \in Nat /\ deal'.next \in Nat
         /\ \A i : With(h, i) => With(h, i)'
         /\ \A i \in Elems : deal.next <= i /\ i < deal'.next => With(h, i)'
         /\ hpc'[h] = "end" => mem'[h] # None /\ deal'.next >= NElems
<1> USE DEF GoTo
<1>1. /\ hpc \in [Threads -> HandPcs] /\ mem \in [Threads -> Sizes] /\ at \in [Threads -> Nat]
      /\ done \in [Threads -> SUBSET Elems] /\ deal.next \in Nat /\ deal.block \in Nat
      /\ NElems \in Nat /\ deal.failed \in BOOLEAN
  BY Crews DEF Types
<1>2. CASE Start(h) \/ Arm(h) \/ Armed(h) \/ Check(h)
  <2>1. /\ deal' = deal /\ at' = at /\ done' = done /\ hpc'[h] # "end"
        /\ hpc[h] \in {"start", "arm", "armed"}
           \/ (hpc[h] = "check" /\ hpc'[h] \in {"claim", "fail"})
    BY <1>1, <1>2 DEF Start, Arm, Armed, Check, cvars, hvars
  <2>2. \A i : With(h, i) => With(h, i)'
    BY <2>1 DEF With, BlockEnd
  <2> QED BY <1>1, <2>1, <2>2 DEF Elems
<1>3. CASE Claim(h)
  <2>1. /\ deal'.next = deal.next + deal.block /\ deal'.failed = deal.failed
        /\ deal'.block = deal.block
        /\ hpc[h] = "claim" /\ at'[h] = deal.next /\ done' = done /\ mem' = mem
        /\ hpc'[h] = IF deal.next >= NElems THEN "end" ELSE IF epoch > dl[h] THEN "fail" ELSE "call"
    BY <1>1, <1>3 DEF Claim, Types
  <2>2. deal'.next >= deal.next /\ deal'.next \in Nat
    BY <1>1, <2>1
  <2>3. hpc'[h] \in {"end", "fail", "call"}
    BY <2>1
  <2>4. \A i : With(h, i) => With(h, i)'
    BY <2>1, <2>3 DEF With
  <2>5. ASSUME NEW i \in Elems, deal.next <= i, i < deal'.next PROVE With(h, i)'
    <3>1. i \in Nat /\ i < NElems
      BY <1>1 DEF Elems
    <3>2. hpc'[h] \in {"fail", "call"}
      BY <1>1, <2>1, <2>5, <3>1
    <3>3. i \in deal.next..(Least(deal.next + deal.block, NElems) - 1)
      BY <1>1, <2>1, <2>5, <3>1 DEF Least
    <3>4. i \in at'[h]..(BlockEnd(h)' - 1)
      BY <2>1, <3>3 DEF BlockEnd
    <3> QED BY <3>2, <3>4 DEF With
  <2>6. hpc'[h] = "end" => mem'[h] # None /\ deal'.next >= NElems
    <3>1. mem[h] # None
      BY <2>1 DEF WorkerOK
    <3> QED BY <1>1, <2>1, <3>1
  <2> QED BY <1>1, <2>1, <2>2, <2>4, <2>5, <2>6
<1>4. CASE Return(h)
  <2>1. /\ deal' = deal /\ hpc[h] \in {"call", "grown"} /\ hpc'[h] = "check"
        /\ done'[h] = done[h] \cup at[h]..(BlockEnd(h) - 1)
    BY <1>1, <1>4 DEF Return, cvars
  <2>2. \A i : With(h, i) => With(h, i)'
    BY <2>1 DEF With
  <2> QED BY <1>1, <2>1, <2>2 DEF Elems
<1>5. CASE Fault(h) \/ Interrupt(h) \/ GrowWorker(h) \/ UndoGrow(h)
  <2>1. /\ deal' = deal /\ at' = at /\ done' = done
        /\ hpc[h] \in {"call", "grown", "loop"} /\ hpc'[h] \in {"grown", "loop", "fail"}
    BY <1>1, <1>5 DEF Fault, Interrupt, GrowWorker, UndoGrow, cvars
  <2>2. \A i : With(h, i) => With(h, i)'
    BY <2>1 DEF With, BlockEnd
  <2> QED BY <1>1, <2>1, <2>2 DEF Elems
<1>6. CASE Fail(h)
  BY <1>1, <1>6 DEF Fail, Types
<1> QED BY <1>2, <1>3, <1>4, <1>5, <1>6 DEF HandStep

\* Steps of Deal::run lose no element of an offer that has not failed.
LEMMA HandStepCover ==
  ASSUME HostInv, CoverInv, NEW h \in Threads, HandStep(h)
  PROVE  CoverInv'
<1>1. Types /\ WorkerOK /\ EndOK /\ CoverOK
  BY DEF HostInv, CoverInv
<1>2. /\ UNCHANGED <<gpc, parts, last, out>> /\ deal'.block = deal.block
      /\ \A g \in Threads \ {h} : hpc'[g] = hpc[g] /\ mem'[g] = mem[g]
                                  /\ at'[g] = at[g] /\ done'[g] = done[g]
      /\ hpc'[h] # "send"
  BY <1>1, HandMoves DEF gvars, Running
<1>3. CASE deal'.failed
  BY <1>2, <1>3 DEF CoverInv, EndOK, CoverOK, ServedComplete
<1>4. CASE ~deal'.failed
  <2>1. /\ deal'.failed = deal.failed
        /\ deal'.next >= deal.next /\ deal.next \in Nat /\ deal'.next \in Nat
        /\ \A i : With(h, i) => With(h, i)'
        /\ \A i \in Elems : deal.next <= i /\ i < deal'.next => With(h, i)'
        /\ hpc'[h] = "end" => mem'[h] # None /\ deal'.next >= NElems
    BY <1>1, <1>4, HandCovers
  <2>2. EndOK'
    <3>1. deal.next >= NElems => deal'.next >= NElems
      BY <2>1, Crews
    <3>2. ASSUME NEW g \in Threads, hpc'[g] \in {"end", "send"}
          PROVE  mem'[g] # None /\ deal'.next >= NElems
      BY <1>1, <1>2, <1>4, <2>1, <3>1, <3>2 DEF EndOK
    <3>3. \A p \in DOMAIN parts : parts[p].worker # None /\ deal'.next >= NElems
      BY <1>1, <1>4, <2>1, <3>1 DEF EndOK
    <3>4. gpc' = "inner" => parts' # <<>>
      BY <1>1, <1>2, <1>4, <2>1 DEF EndOK
    <3> QED BY <1>2, <3>2, <3>3, <3>4 DEF EndOK
  <2>3. CoverOK'
    <3> SUFFICES ASSUME gpc \notin {"run", "oom"}, NEW i \in Elems, i < deal'.next
                 PROVE  Covered(i)'
      BY <1>2 DEF CoverOK
    <3>1. CASE i < deal.next
      <4>1. Covered(i)
        BY <1>1, <1>4, <2>1, <3>1 DEF CoverOK
      <4>2. With(h, i) => Covered(i)'
        BY <2>1 DEF Covered
      <4> QED BY <1>2, <4>1, <4>2, CoverStep
    <3>2. CASE ~(i < deal.next)
      <4>1. deal.next <= i
        BY <2>1, <3>2, Crews DEF Elems
      <4> QED BY <2>1, <4>1 DEF Covered
    <3> QED BY <3>1, <3>2
  <2> QED BY <1>2, <2>2, <2>3 DEF CoverInv, ServedComplete
<1> QED BY <1>3, <1>4

\* A part takes its thread's results with it.
LEMMA PartCover ==
  ASSUME HostInv, CoverInv, NEW h \in Threads, Send(h) \/ (h = 0 /\ EndInline)
  PROVE  CoverInv'
<1>1. Types /\ CrewOK /\ EndOK /\ CoverOK
  BY DEF HostInv, CoverInv
<1>2. /\ UNCHANGED <<last, out, deal, at, done>>
      /\ parts' = Append(parts, Part(h))
      /\ hpc[h] \in {"end", "send"} /\ hpc'[h] \in {"absent", "back"}
      /\ \A g \in Threads \ {h} : hpc'[g] = hpc[g] /\ mem'[g] = mem[g]
      /\ gpc' = gpc \/ (gpc = "await" /\ gpc' = "inner")
      /\ gpc \notin {"run", "oom", "inner"}
  BY <1>1, Crews DEF Send, EndInline, GoTo, gvars, Types, CrewOK, Job
<1> DEFINE P == [worker : Sizes, done : SUBSET Elems]
<1>3. /\ parts \in Seq(P) /\ Part(h) \in P
      /\ Part(h).worker = mem[h] /\ (mem[h] # None => Part(h).done = done[h])
  BY <1>1 DEF Types, Part
<1> HIDE DEF P
<1>4. /\ DOMAIN parts' = 1..(Len(parts) + 1) /\ DOMAIN parts = 1..Len(parts) /\ Len(parts) \in Nat
      /\ parts'[Len(parts) + 1] = Part(h)
      /\ \A p \in 1..Len(parts) : parts'[p] = parts[p]
  BY <1>2, <1>3
<1>5. /\ Len(parts) + 1 \in DOMAIN parts'
      /\ \A p \in DOMAIN parts : p \in DOMAIN parts' /\ parts'[p] = parts[p]
      /\ \A p \in DOMAIN parts' : p \in DOMAIN parts \/ p = Len(parts) + 1
  BY <1>4
<1>6. CASE deal.failed
  BY <1>2, <1>6 DEF CoverInv, EndOK, CoverOK, ServedComplete
<1>7. CASE ~deal.failed
  <2>1. mem[h] # None /\ deal.next >= NElems
    BY <1>1, <1>2, <1>7 DEF EndOK
  <2>2. EndOK'
    <3>1. \A g \in Threads : hpc'[g] \in {"end", "send"} => mem'[g] # None /\ deal.next >= NElems
      BY <1>1, <1>2, <1>7 DEF EndOK
    <3>2. \A p \in DOMAIN parts' : parts'[p].worker # None /\ deal.next >= NElems
      BY <1>1, <1>3, <1>4, <1>5, <1>7, <2>1 DEF EndOK
    <3>3. parts' # <<>>
      BY <1>5
    <3> QED BY <1>2, <3>1, <3>2, <3>3 DEF EndOK
  <2>3. CoverOK'
    <3> SUFFICES ASSUME NEW i \in Elems, i < deal.next
                 PROVE  Covered(i)'
      BY <1>2 DEF CoverOK
    <3>1. Covered(i)
      BY <1>1, <1>2, <1>7 DEF CoverOK
    <3>2. With(h, i) => Covered(i)'
      <4>1. With(h, i) => i \in done[h]
        BY <1>2 DEF With
      <4>2. i \in done[h] => i \in parts'[Len(parts) + 1].done
        BY <1>3, <1>4, <2>1
      <4> QED BY <1>5, <4>1, <4>2 DEF Covered
    <3> QED BY <1>2, <1>5, <3>1, <3>2, CoverStep
  <2> QED BY <1>2, <2>2, <2>3 DEF CoverInv, ServedComplete
<1> QED BY <1>6, <1>7

\* Steps that move a thread which answers for nothing, or drops its handle.
LEMMA MoveCover ==
  ASSUME CoverInv, NEW h \in Threads,
         UNCHANGED <<last, out, parts, at>>,
         gpc' = gpc \/ gpc' \in {"await", "dispatch"}, gpc \notin {"run", "oom"},
         deal'.block = deal.block, deal'.next = deal.next, deal'.failed = deal.failed,
         \A g \in Threads \ {h} : hpc'[g] = hpc[g] /\ mem'[g] = mem[g] /\ done'[g] = done[g],
         \/ hpc[h] \in {"absent", "wait", "back"} /\ hpc'[h] \in {"start", "wait"}
         \/ hpc[h] = "end" /\ hpc'[h] = "send" /\ mem'[h] = mem[h] /\ done'[h] = done[h]
  PROVE  CoverInv'
<1>1. EndOK /\ CoverOK
  BY DEF CoverInv
<1>2. EndOK'
  BY <1>1 DEF EndOK
<1>3. CoverOK'
  <2> SUFFICES ASSUME ~deal.failed, NEW i \in Elems, i < deal.next
               PROVE  Covered(i)'
    BY DEF CoverOK
  <2>1. Covered(i)
    BY <1>1 DEF CoverOK
  <2>2. With(h, i) => Covered(i)'
    <3>1. With(h, i) => With(h, i)'
      BY DEF With
    <3> QED BY <3>1 DEF Covered
  <2> QED BY <2>1, <2>2, CoverStep
<1> QED BY <1>2, <1>3 DEF CoverInv, ServedComplete

\* The steps of a hand's round.
LEMMA CrewCover ==
  ASSUME HostInv, CoverInv, NEW h \in Hands, CrewStep(h)
  PROVE  CoverInv'
<1>1. Types /\ CrewOK /\ h \in Threads
  BY Crews DEF HostInv
<1>2. CASE Send(h)
  BY <1>1, <1>2, PartCover
<1>3. CASE Recv(h) \/ DropDeal(h) \/ DropBack(h)
  <2>1. gpc \notin {"run", "oom"}
    BY <1>1, <1>3 DEF CrewOK, Job, Recv, DropDeal, DropBack
  <2>2. /\ UNCHANGED <<last, out, parts, at, gpc>>
        /\ deal'.block = deal.block /\ deal'.next = deal.next /\ deal'.failed = deal.failed
        /\ \A g \in Threads \ {h} : hpc'[g] = hpc[g] /\ mem'[g] = mem[g] /\ done'[g] = done[g]
    BY <1>1, <1>3 DEF Recv, DropDeal, DropBack, GoTo, gvars, Types
  <2>3. \/ hpc[h] \in {"absent", "wait", "back"} /\ hpc'[h] \in {"start", "wait"}
        \/ hpc[h] = "end" /\ hpc'[h] = "send" /\ mem'[h] = mem[h] /\ done'[h] = done[h]
    BY <1>1, <1>3 DEF Recv, DropDeal, DropBack, GoTo, gvars, Types
  <2> QED BY <1>1, <2>1, <2>2, <2>3, MoveCover
<1> QED BY <1>2, <1>3 DEF CrewStep, HandEnd

\* Steps that start a thread on a job.
LEMMA StartCover ==
  ASSUME HostInv, CoverInv, RunInline \/ Dispatch
  PROVE  CoverInv'
<1>1. Types /\ CrewOK /\ JobsOK /\ 0 \in Threads
  BY Crews DEF HostInv
<1>2. CASE RunInline
  <2>1. hpc[0] = "absent"
    BY <1>1, <1>2 DEF RunInline, CrewOK
  <2>2. /\ UNCHANGED <<last, out, parts, at, deal>>
        /\ gpc' = "await" /\ gpc = "inline" /\ hpc'[0] = "start"
        /\ \A g \in Threads \ {0} : hpc'[g] = hpc[g] /\ mem'[g] = mem[g] /\ done'[g] = done[g]
    BY <1>1, <1>2 DEF RunInline, cvars, Types
  <2> QED BY <1>1, <2>1, <2>2, MoveCover
<1>3. CASE Dispatch
  <2>1. UNCHANGED <<last, out, parts, at, deal, gpc, mem, done>> /\ gpc = "dispatch"
    BY <1>3 DEF Dispatch
  <2>2. CASE hpc' = hpc
    BY <2>1, <2>2 DEF CoverInv, EndOK, CoverOK, ServedComplete, Covered, With, BlockEnd
  <2>3. CASE hpc' = [hpc EXCEPT ![crew + 1] = "wait"] /\ crew' = crew + 1 /\ sent >= crew
    <3>1. crew + 1 \in Threads /\ hpc[crew + 1] = "absent"
      <4>1. /\ sent \in Nat /\ sent < deal.jobs /\ deal.jobs \in 1..MaxWorkers /\ crew \in Nat
            /\ MaxWorkers \in Nat
        BY <1>1, <1>3, Crews DEF Types, JobsOK, Dispatch
      <4>2. crew + 1 \in Hands /\ ~(crew + 1 <= crew)
        BY <2>3, <4>1 DEF Hands
      <4> QED BY <1>1, <4>2, Crews DEF CrewOK
    <3>2. hpc'[crew + 1] = "wait" /\ \A g \in Threads \ {crew + 1} : hpc'[g] = hpc[g]
      BY <1>1, <2>3, <3>1 DEF Types
    <3> QED BY <2>1, <3>1, <3>2, MoveCover
  <2> QED BY <1>3, <2>2, <2>3 DEF Dispatch
<1> QED BY <1>2, <1>3

\* Steps that may fail the offer: refused jobs and missing parts.
LEMMA JoinCover ==
  ASSUME HostInv, CoverInv, Dispatched \/ Collect
  PROVE  CoverInv'
<1>1. Types /\ JobsOK /\ EndOK /\ CoverOK
  BY DEF HostInv, CoverInv
<1>2. /\ UNCHANGED <<last, out, parts, hpc, mem, at, done>>
      /\ deal'.next = deal.next /\ deal'.block = deal.block
      /\ deal.failed => deal'.failed
      /\ gpc \notin {"run", "oom"}
  BY <1>1 DEF Dispatched, Collect, hvars, Types
<1>3. gpc' = "inner" => deal'.failed \/ parts # <<>>
  <2>1. ASSUME Collect, parts = <<>> PROVE deal'.failed
    <3>1. deal.jobs \in 1..MaxWorkers /\ MaxWorkers \in Nat
      BY <1>1, <2>1, Crews DEF JobsOK, Collect
    <3>2. Len(parts) = 0
      BY <2>1
    <3>3. Len(parts) < deal.jobs
      BY <3>1, <3>2
    <3> QED BY <1>1, <2>1, <3>3 DEF Collect, Types
  <2>2. Dispatched => gpc' # "inner"
    BY DEF Dispatched
  <2> QED BY <2>1, <2>2
<1>4. EndOK'
  BY <1>1, <1>2, <1>3 DEF EndOK
<1>5. CoverOK'
  BY <1>1, <1>2 DEF CoverOK, Covered, With, BlockEnd
<1> QED BY <1>2, <1>4, <1>5 DEF CoverInv, ServedComplete

\* A served offer has every result: each was claimed, no thread has it still,
\* so it is in a part.
LEMMA FinishCover ==
  ASSUME HostInv, CoverInv, Finish
  PROVE  CoverInv'
<1>1. Types /\ EndOK /\ CoverOK
  BY DEF HostInv, CoverInv
<1>2. /\ UNCHANGED <<hpc, mem, at, done>> /\ gpc = "inner" /\ gpc' = "run" /\ parts' = <<>>
  BY DEF Finish, hvars
<1>3. \A h \in Threads : hpc[h] \in {"absent", "wait"}
  BY <1>2, Quiet
<1>4. EndOK'
  BY <1>2, <1>3 DEF EndOK
<1>5. CoverOK'
  BY <1>2 DEF CoverOK
<1>6. ServedComplete'
  <2>1. CASE ~(deal.refs = 1 /\ Ok)
    BY <2>1 DEF Finish, ServedComplete
  <2>2. CASE deal.refs = 1 /\ Ok
    <3>1. out' = UNION {parts[i].done : i \in DOMAIN parts}
      BY <2>2 DEF Finish
    <3>2. ~deal.failed /\ parts # <<>>
      BY <1>1, <1>2, <2>2 DEF Ok, EndOK
    <3>3. parts \in Seq([worker : Sizes, done : SUBSET Elems])
      BY <1>1 DEF Types
    <3>4. \E p : p \in DOMAIN parts
      <4>1. 1 \in DOMAIN parts
        BY <3>2, <3>3
      <4> QED BY <4>1
    <3>5. deal.next >= NElems /\ deal.next \in Nat
      BY <1>1, <3>2, <3>4 DEF EndOK, Types
    <3>6. ASSUME NEW i \in Elems PROVE \E p \in DOMAIN parts : i \in parts[p].done
      <4>1. i < deal.next
        BY <3>5, Crews DEF Elems
      <4>2. Covered(i)
        BY <1>1, <1>2, <3>2, <4>1 DEF CoverOK
      <4>3. \A h \in Threads : ~With(h, i)
        BY <1>3 DEF With
      <4> QED BY <4>2, <4>3 DEF Covered
    <3>7. \A p \in DOMAIN parts : parts[p].done \subseteq Elems
      <4>1. \A p \in DOMAIN parts : parts[p] \in [worker : Sizes, done : SUBSET Elems]
        <5>1. DOMAIN parts = 1..Len(parts)
          BY <3>3
        <5> QED BY <3>3, <5>1, ElementOfSeq
      <4> QED BY <4>1
    <3> QED BY <3>1, <3>6, <3>7 DEF ServedComplete
  <2> QED BY <2>1, <2>2
<1> QED BY <1>4, <1>5, <1>6 DEF CoverInv

\* An offer starts with nothing claimed.
LEMMA OfferCover ==
  ASSUME HostInv, CoverInv, NEW w \in 1..Least(MaxWorkers, NElems), Offer(w)
  PROVE  CoverInv'
<1>1. /\ UNCHANGED hpc /\ gpc = "run" /\ gpc' \in {"inline", "dispatch"} /\ parts' = <<>>
      /\ deal'.next = 0 /\ last' = "none"
  BY DEF Offer, hvars
<1>2. \A h \in Threads : hpc[h] \in {"absent", "wait"}
  BY <1>1, Quiet
<1>3. EndOK'
  BY <1>1, <1>2 DEF EndOK
<1>4. CoverOK'
  <2>1. \A i \in Elems : ~(i < 0)
    BY Crews DEF Elems
  <2> QED BY <1>1, <2>1 DEF CoverOK
<1> QED BY <1>1, <1>3, <1>4 DEF CoverInv, ServedComplete

\* Steps outside an offer, and the watchdog's.
LEMMA StillCover ==
  ASSUME CoverInv, UNCHANGED <<deal, parts, hpc, mem, at, done, last, out>>,
         gpc' = gpc \/ (gpc' \in {"run", "oom"})
  PROVE  CoverInv'
  BY DEF CoverInv, EndOK, CoverOK, ServedComplete, Covered, With, BlockEnd

\* Every step keeps the results complete.
LEMMA CoverKeeps ==
  ASSUME HostInv, CoverInv, [Next]_vars
  PROVE  CoverInv'
<1>1. CASE Ticker \/ Grow \/ StartChild \/ UNCHANGED vars
  <2>1. /\ UNCHANGED <<deal, parts, hpc, mem, at, done, last, out>>
        /\ gpc' = gpc \/ (gpc' \in {"run", "oom"})
    BY <1>1 DEF Ticker, Tick, IncrementEpoch, Grow, StartChild, vars, gvars, cvars, hvars
  <2> QED BY <2>1, StillCover
<1>2. CASE HostStep
  BY <1>2, StartCover, JoinCover, FinishCover, PartCover, Crews DEF HostStep
<1>3. CASE \E w \in 1..Least(MaxWorkers, NElems) : Offer(w)
  BY <1>3, OfferCover
<1>4. CASE \E h \in Threads : HandStep(h)
  BY <1>4, HandStepCover
<1>5. CASE \E h \in Hands : CrewStep(h)
  BY <1>5, CrewCover
<1> QED BY <1>1, <1>2, <1>3, <1>4, <1>5 DEF Next

\* A served offer has a result for every element, whichever hands claimed
\* them and in whatever order their parts arrived.
THEOREM ServedIsComplete == Spec => []ServedComplete
<1>1. Init => HostInv /\ CoverInv
  <2>1. Init => CoverInv
    BY DEF Init, CoverInv, EndOK, CoverOK, ServedComplete
  <2> QED BY <2>1, HostInit
<1>2. HostInv /\ CoverInv /\ [Next]_vars => HostInv' /\ CoverInv'
  BY HostStepKeeps, CoverKeeps
<1>3. CoverInv => ServedComplete
  BY DEF CoverInv
<1> QED BY <1>1, <1>2, <1>3, PTL DEF Spec
=============================================================================
