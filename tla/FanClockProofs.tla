--------------------------- MODULE FanClockProofs ----------------------------
(***************************************************************************)
(* Machine-checked proofs about FanClock, for every number of callers,     *)
(* sites, entries and cores, and every setting of the cost model: what the *)
(* plan's loop computes, that the table of sites is kept without a lock,   *)
(* that no unmeasured offer is lost or added, and that a site turns        *)
(* parallel on two measurements.                                           *)
(***************************************************************************)
EXTENDS FanClock, WellFoundedInduction, TLAPS

\* Where a caller is, and its locals.
Pcs == {"idle", "find", "load", "probe", "take", "count", "dec", "run", "claim", "cas", "old",
        "skip", "t"}
Locals ==
  [pc : Pcs, site : Sites \cup {NoSite}, n : Nat \ {0, 1}, at : Entries, tries : Entries,
   est : Nat \cup {Unknown}, k : 0..Probe, workers : 1..Cores, measure : BOOLEAN,
   ns : Nat, warm : BOOLEAN]

\* The types, the history's too.
Types ==
  /\ home \in [Sites -> Entries] /\ key \in [Entries -> Sites \cup {NoSite}]
  /\ t \in [Entries -> Nat] /\ skip \in [Entries -> 0..Probe]
  /\ made \in 0..MaxOffers /\ loc \in [Callers -> Locals]
  /\ from \in [Entries -> Sites \cup {NoSite}]
  /\ put \in [Entries -> 0..Probe] /\ passed \in [Entries -> Nat]
  /\ known \in [Callers -> BOOLEAN] /\ mixed \in [Sites -> BOOLEAN]
  /\ user \in [Sites -> {NoUser} \cup (Callers \X (Nat \ {0, 1}))]
  /\ up \in [Sites -> 0..2]

\* The k-th entry that a search for site s looks at.
Path(s, k) == IF home[s] + k < TableLen THEN home[s] + k ELSE home[s] + k - TableLen

\* The first k entries on the path of s belong to other sites.
Passed(s, k) == \A m \in Entries : m < k => key[Path(s, m)] \notin {NoSite, s}

\* Every claimed entry is where a search for its site ends.
KeyOK ==
  \A s \in Sites : \A i \in Entries : key[i] = s =>
    \E k \in Entries : i = Path(s, k) /\ Passed(s, k)

\* A caller has walked its site's path up to where it is, or holds its entry.
CallerOK(p) ==
  LET l == loc[p] IN
  /\ l.pc # "idle" => l.site \in Sites
  /\ l.pc \in {"find", "claim", "cas"} => l.at = Path(l.site, l.tries) /\ Passed(l.site, l.tries)
  /\ l.pc \in {"load", "probe", "take", "count", "dec", "old", "skip", "t"} => key[l.at] = l.site
  /\ l.pc \in {"probe", "take", "count", "dec"} => l.est # Unknown
  /\ l.pc = "dec" => l.k \notin {0, Probe}

\* The site has an estimate.
HasEst(s) == \E i \in Entries : key[i] = s /\ t[i] # 0

\* The estimates, and what a caller knew when it began.
EstOK ==
  /\ \A i \in Entries : t[i] # 0 => key[i] # NoSite /\ from[i] = key[i]
  /\ \A p \in Callers :
       /\ loc[p].pc \in {"find", "load"} /\ known[p] => HasEst(loc[p].site)
       /\ loc[p].pc = "run" /\ loc[p].est = Unknown => ~known[p]

SitesInv == Types /\ KeyOK /\ (\A p \in Callers : CallerOK(p)) /\ EstOK

\* Callers that may have taken the probe of their site, or are about to leave one.
Running == {"run", "claim", "cas", "old", "skip", "t"}
Busy(s) == \E p \in Callers : loc[p].pc \in Running /\ loc[p].site = s

\* A site's user: who offers there, unless it is mixed.
UserOK ==
  /\ \A p \in Callers : loc[p].pc # "idle" =>
       /\ user[loc[p].site] # NoUser
       /\ ~mixed[loc[p].site] => user[loc[p].site] = <<p, loc[p].n>>
  /\ \A s \in Sites : up[s] # 2 => user[s] # NoUser /\ HasEst(s)

\* What the entry of a site with one user shows of its last records.
RecordOK ==
  \A i \in Entries :
    LET s == key[i] IN
    s # NoSite /\ ~mixed[s] =>
      /\ up[s] = 0 => Plan(user[s][2], t[i] - 1) < 2
      /\ up[s] = 1 /\ ~Busy(s) => skip[i] = Probe

\* ... and what the user is about to do.
TurnOK(p) ==
  LET l == loc[p] IN
  l.pc # "idle" /\ ~mixed[l.site] =>
    /\ l.pc \in {"count", "dec"} => up[l.site] # 1
    /\ l.pc \in {"probe", "take", "count", "dec"} /\ up[l.site] = 0 => Plan(l.n, l.est) < 2
    /\ l.pc \in {"run", "claim", "cas", "old"} /\ l.workers >= 2 => up[l.site] = 2
    /\ l.pc = "run" /\ ~l.measure => up[l.site] # 1
    /\ l.pc \in {"skip", "t"} /\ up[l.site] = 0 /\ Plan(l.n, l.ns) >= 2 => l.k = Probe
    /\ l.pc = "t" => skip[l.at] = l.k

TurnInv == UserOK /\ RecordOK /\ \A p \in Callers : TurnOK(p)
-----------------------------------------------------------------------------
(* Induction, and the plan *)

\* A set of naturals that is not empty has a least element.
LEMMA Least ==
  ASSUME NEW T \in SUBSET Nat, T # {}
  PROVE  \E x \in T : \A y \in T : x <= y
<1> DEFINE R == {ss \in Nat \X Nat : ss[1] < ss[2]}
<1>1. IsWellFoundedOn(R, Nat)
  BY NatLessThanWellFounded DEF OpToRel
<1>2. \A x, y \in Nat : <<x, y>> \notin R => y <= x
  OBVIOUS
<1> HIDE DEF R
<1>3. \E x \in T : \A y \in T : <<y, x>> \notin R
  BY <1>1, WFMin
<1> QED
  BY <1>2, <1>3

\* Induction from 1 to m, for a set.
LEMMA UpFromOne ==
  ASSUME NEW m \in Nat, NEW S \in SUBSET (1..m), m > 0 => 1 \in S,
         \A i \in S : i < m => i + 1 \in S
  PROVE  S = 1..m
<1>1. SUFFICES ASSUME (1..m) \ S # {}
               PROVE  FALSE
  OBVIOUS
<1>2. PICK i \in (1..m) \ S : \A j \in (1..m) \ S : i <= j
  <2>1. (1..m) \ S \in SUBSET Nat
    OBVIOUS
  <2> QED
    BY <1>1, <2>1, Least
<1>3. i - 1 \in S
  BY <1>2
<1> QED
  BY <1>2, <1>3

\* After the last entry comes the first.
LEMMA FollowingIs ==
  ASSUME NEW i \in Entries
  PROVE  Following(i) = IF i + 1 = TableLen THEN 0 ELSE i + 1
<1>1. TableLen \in Nat \ {0}
  BY ClockAssumption
<1>2. CASE i + 1 = TableLen
  BY <1>1, <1>2 DEF Following, Entries
<1>3. CASE i + 1 # TableLen
  BY <1>1, <1>3 DEF Following, Entries
<1> QED
  BY <1>2, <1>3

\* The net gain is a number.
LEMMA NetInt ==
  ASSUME NEW n \in Nat, NEW ns \in Nat, NEW w \in Nat \ {0}
  PROVE  Net(n, ns, w) \in Int
<1>1. DivCeil(n, w) \in Int
  BY DEF DivCeil
<1>2. ns * (n - DivCeil(n, w)) \in Int
  BY <1>1
<1>3. WorkerNs * w \in Int /\ OfferNs \in Int
  BY ClockAssumption
<1> QED
  BY <1>1, <1>2, <1>3 DEF Net

\* What w workers gain; one costs nothing and gains nothing.
Gain(n, ns, w) == IF w = 1 THEN 0 ELSE Net(n, ns, w)
\* The loop's variables after its round for w, g holding those before.
Round(n, ns, g, w) ==
  IF w = 1 THEN [workers |-> 1, net |-> 0]
  ELSE IF Better(n, ns, w, g[w - 1]) THEN [workers |-> w, net |-> Net(n, ns, w)]
  ELSE g[w - 1]

\* The loop's equation has a solution: the bests of the first m worker counts
\* extend to m + 1.
LEMMA LoopExists ==
  ASSUME NEW n \in Nat \ {0}, NEW ns \in Nat
  PROVE  \E g : g = [w \in 1..Workers(n) |-> Round(n, ns, g, w)]
<1> DEFINE W == Workers(n)
           Vals == [workers : 1..W, net : Nat]
           Body(g, w) == Round(n, ns, g, w)
           G(m) == {g \in [1..m -> Vals] : \A w \in 1..m : g[w] = Body(g, w)}
           S == {m \in 1..W : G(m) # {}}
<1>0. W \in Nat \ {0}
  BY ClockAssumption DEF Workers
<1>1. 1 \in S
  <2> DEFINE g == [w \in 1..1 |-> [workers |-> 1, net |-> 0]]
  <2>1. g \in [1..1 -> Vals]
    BY <1>0
  <2>2. \A w \in 1..1 : g[w] = Body(g, w)
    BY DEF Round
  <2> QED
    BY <1>0, <2>1, <2>2
<1>2. ASSUME NEW m \in S, m < W
      PROVE  m + 1 \in S
  <2>1. PICK g \in G(m) : TRUE
    OBVIOUS
  <2> DEFINE h == [w \in 1..(m + 1) |-> IF w <= m THEN g[w] ELSE Body(g, w)]
  <2>2. Body(g, m + 1) \in Vals
    <3>1. m \in 1..m /\ g[m] \in Vals /\ m + 1 \in 1..W
      BY <1>0, <1>2, <2>1
    <3>2. Net(n, ns, m + 1) \in Int
      BY <3>1, NetInt
    <3> QED
      BY <3>1, <3>2 DEF Round, Better
  <2>3. h \in [1..(m + 1) -> Vals]
    BY <2>1, <2>2
  <2>4. ASSUME NEW w \in 1..(m + 1)
        PROVE  h[w] = Body(h, w)
    <3>1. w # 1 => w - 1 \in 1..m /\ h[w - 1] = g[w - 1]
      BY <1>2
    <3>2. Body(h, w) = Body(g, w)
      BY <3>1 DEF Round
    <3>3. h[w] = Body(g, w)
      BY <2>1
    <3> QED
      BY <3>2, <3>3
  <2>5. h \in G(m + 1)
    BY <2>3, <2>4
  <2>6. m + 1 \in 1..W
    BY <1>0, <1>2
  <2> HIDE DEF G, h
  <2> QED
    BY <2>5, <2>6
<1>3. S = 1..W
  BY <1>0, <1>1, <1>2, UpFromOne
<1>4. PICK g \in G(W) : TRUE
  <2> HIDE DEF G, S, W
  <2>1. W \in S
    BY <1>0, <1>3
  <2> USE DEF S
  <2> QED
    BY <2>1
<1>5. g = [w \in 1..W |-> Body(g, w)]
  BY <1>4
<1> QED
  BY <1>5

\* So Plan answers the last of a sequence that obeys it.
LEMMA PlanRound ==
  ASSUME NEW n \in Nat \ {0}, NEW ns \in Nat
  PROVE  \E g : /\ g = [w \in 1..Workers(n) |-> Round(n, ns, g, w)]
                /\ Plan(n, ns) = g[Workers(n)].workers
<1> DEFINE best == CHOOSE g : g = [w \in 1..Workers(n) |-> Round(n, ns, g, w)]
<1>1. Plan(n, ns) = best[Workers(n)].workers
  BY DEF Plan, Round
<1>2. best = [w \in 1..Workers(n) |-> Round(n, ns, best, w)]
  BY LoopExists
<1> QED
  BY <1>1, <1>2

\* almide_rt_fan_plan's loop answers the smallest of the worker counts that
\* gain most, 1 when none gains anything: whatever the number of elements, the
\* time of one and the number of cores.
THEOREM PlanIsBest ==
  ASSUME NEW n \in Nat \ {0}, NEW ns \in Nat
  PROVE  /\ Plan(n, ns) \in 1..Workers(n)
         /\ \A w \in 1..Workers(n) :
              /\ Gain(n, ns, w) <= Gain(n, ns, Plan(n, ns))
              /\ w < Plan(n, ns) => Gain(n, ns, w) < Gain(n, ns, Plan(n, ns))
<1>1. PICK g : /\ g = [w \in 1..Workers(n) |-> Round(n, ns, g, w)]
               /\ Plan(n, ns) = g[Workers(n)].workers
  BY PlanRound
<1> DEFINE W == Workers(n)
           Best(b, w) ==
             /\ b \in [workers : 1..w, net : Nat]
             /\ b.net = Gain(n, ns, b.workers)
             /\ \A v \in 1..w : /\ Gain(n, ns, v) <= b.net
                                /\ v < b.workers => Gain(n, ns, v) < b.net
           S == {w \in 1..W : Best(g[w], w)}
<1>0. W \in Nat \ {0} /\ \A w \in 1..W : g[w] = Round(n, ns, g, w)
  BY <1>1, ClockAssumption DEF Workers
<1>2. \A w \in 1..W : Gain(n, ns, w) \in Int
  BY <1>0, NetInt DEF Gain
<1>3. 1 \in S
  <2>0. 1 \in 1..W
    <3> HIDE DEF W
    <3> QED
      BY <1>0
  <2>1. g[1] = [workers |-> 1, net |-> 0]
    BY <1>0, <2>0 DEF Round
  <2>2. Best([workers |-> 1, net |-> 0], 1)
    BY DEF Gain
  <2> HIDE DEF Best
  <2> QED
    BY <2>0, <2>1, <2>2
<1>4. ASSUME NEW w \in S, w < W
      PROVE  w + 1 \in S
  <2> DEFINE b == g[w]
             c == g[w + 1]
             x == w + 1
  <2>0. Best(b, w) /\ x \in 1..W /\ x # 1 /\ w \in 1..W
    BY <1>4, <1>0
  <2>1. c = IF Better(n, ns, x, b) THEN [workers |-> x, net |-> Net(n, ns, x)] ELSE b
    BY <1>0, <2>0 DEF Round
  <2>2. Gain(n, ns, x) = Net(n, ns, x) /\ Net(n, ns, x) \in Int
    BY <1>2, <2>0 DEF Gain
  <2>3. /\ \A v \in 1..x : v \in 1..w \/ v = x
        /\ \A v \in 1..x : v \in 1..W
        /\ \A v \in 1..w : v \in 1..W
    <3> HIDE DEF W, Best
    <3> QED
      BY <1>0, <2>0
  <2>4. CASE Better(n, ns, x, b)
    <3>1. c.workers = x /\ c.net = Net(n, ns, x) /\ c \in [workers : 1..x, net : Nat]
      BY <2>0, <2>1, <2>2, <2>4 DEF Better
    <3>2. \A v \in 1..w : Gain(n, ns, v) < c.net
      <4>1. Net(n, ns, x) > b.net /\ b.net \in Nat
        BY <2>0, <2>4 DEF Better
      <4>2. \A v \in 1..w : Gain(n, ns, v) \in Int /\ Gain(n, ns, v) <= b.net
        BY <1>2, <2>0, <2>3
      <4> HIDE DEF b, c
      <4> QED
        BY <2>2, <3>1, <4>1, <4>2
    <3>3. Best(c, x)
      <4>1. c.net = Gain(n, ns, x) /\ c.net \in Nat
        BY <2>2, <3>1
      <4>2. ASSUME NEW v \in 1..x
            PROVE  Gain(n, ns, v) <= c.net /\ (v < c.workers => Gain(n, ns, v) < c.net)
        <5>1. Gain(n, ns, v) \in Int
          BY <1>2, <2>3
        <5> HIDE DEF b, c
        <5> QED
          BY <2>3, <3>1, <3>2, <4>1, <5>1
      <4> HIDE DEF b, c
      <4> QED
        BY <3>1, <4>1, <4>2
    <3> QED
      BY <2>0, <3>3
  <2>5. CASE ~Better(n, ns, x, b)
    <3>1. c = b /\ Gain(n, ns, x) <= b.net
      BY <2>0, <2>1, <2>2, <2>5 DEF Better
    <3>2. Best(b, x)
      BY <2>0, <2>2, <2>3, <3>1
    <3> QED
      BY <2>0, <3>1, <3>2
  <2> QED
    BY <2>4, <2>5
<1>5. S = 1..W
  BY <1>0, <1>3, <1>4, UpFromOne
<1>6. Best(g[W], W)
  BY <1>0, <1>5
<1> QED
  BY <1>1, <1>6
-----------------------------------------------------------------------------
(* SitesInv *)

\* One step of caller p.
Step(p) ==
  \/ \E s \in Sites, n \in Lens : Offer(p, s, n)
  \/ Find(p) \/ LoadT(p) \/ SeeProbe(p) \/ TakeProbe(p)
  \/ ReadSkip(p) \/ DecSkip(p) \/ DecSkipFails(p)
  \/ RunUnmeasured(p) \/ (\E ns \in Times : RunMeasured(p, ns)) \/ RunUnwinds(p)
  \/ Claim(p) \/ ClaimCas(p) \/ ReadOld(p) \/ StoreSkip(p) \/ StoreT(p)

\* A record stores a count of offers, or Probe.
LEMMA NewSkipType ==
  ASSUME NEW n, NEW ns, NEW parallel, NEW warm, NEW old
  PROVE  NewSkip(n, ns, parallel, warm, old) \in 0..Probe
<1>1. Resample - 1 \in 0..Probe /\ ResamplePar - 1 \in 0..Probe /\ Probe \in 0..Probe
  BY ClockAssumption
<1> QED
  BY <1>1 DEF NewSkip

\* p's locals get a value of their type.
Moves(p) == \E l \in Locals : Set(p, l)

\* A step of p gives its locals a value of their type.
LEMMA StepMoves ==
  ASSUME SitesInv, NEW p \in Callers, Step(p)
  PROVE  Moves(p)
<1>0. Types /\ CallerOK(p) /\ loc[p] \in Locals
  BY DEF SitesInv, Types
<1>a. Idle \in Locals
  BY ClockAssumption DEF Idle, Locals, Pcs, Entries
<1>z. Set(p, Idle) => Moves(p)
  BY <1>a DEF Moves
<1>b. ASSUME NEW w \in 1..Cores, NEW m \in BOOLEAN, Planned(p, w, m)
      PROVE  Moves(p)
  <2>1. 0 \in Entries /\ 0 \in 0..Probe
    BY ClockAssumption DEF Entries
  <2> QED
    BY <1>0, <1>b, <2>1 DEF Planned, Moves, Locals, Pcs
<1>c. ASSUME NEW x \in Pcs, To(p, x)
      PROVE  Moves(p)
  BY <1>0, <1>c DEF To, Moves, Locals
<1>d. Workers(loc[p].n) \in 1..Cores
  BY <1>0, ClockAssumption DEF Workers, Locals
<1>e. loc[p].est # Unknown => Plan(loc[p].n, loc[p].est) \in 1..Cores
  <2>1. loc[p].est # Unknown => loc[p].est \in Nat /\ loc[p].n \in Nat \ {0}
    BY <1>0 DEF Locals
  <2>2. Workers(loc[p].n) <= Cores /\ Workers(loc[p].n) \in Nat /\ Cores \in Nat
    BY <1>d, ClockAssumption
  <2>3. loc[p].est # Unknown => Plan(loc[p].n, loc[p].est) \in 1..Workers(loc[p].n)
    BY <2>1, PlanIsBest
  <2> QED
    BY <2>2, <2>3
<1>f. PlanFirst(p) => Moves(p)
  BY <1>b, <1>d DEF PlanFirst
<1>g. ASSUME loc[p].tries + 1 # TableLen,
             Set(p, [loc[p] EXCEPT !.at = Following(@), !.tries = @ + 1])
      PROVE  Moves(p)
  <2>1. loc[p].at \in Entries /\ loc[p].tries \in Entries
    BY <1>0 DEF Locals
  <2>2. Following(loc[p].at) \in Entries /\ loc[p].tries + 1 \in Entries
    BY <1>g, <2>1, FollowingIs, ClockAssumption DEF Entries
  <2> QED
    BY <1>0, <1>g, <2>2 DEF Moves, Locals
<1>h. ASSUME NEW k \in 0..Probe, Decide(p, k), loc[p].est # Unknown
      PROVE  Moves(p)
  <2>1. CASE k \in {0, Probe}
    BY <1>b, <1>e, <1>h, <2>1 DEF Decide
  <2>2. CASE k \notin {0, Probe}
    BY <1>0, <1>h, <2>2 DEF Decide, Moves, Locals, Pcs
  <2> QED
    BY <2>1, <2>2
<1>i. skip[loc[p].at] \in 0..Probe /\ t[loc[p].at] \in Nat
  BY <1>0 DEF Types, Locals
<1>1. ASSUME NEW s \in Sites, NEW n \in Lens, Offer(p, s, n)
      PROVE  Moves(p)
  <2>1. home[s] \in Entries /\ n \in Nat \ {0, 1}
    BY <1>0, ClockAssumption DEF Types
  <2> QED
    BY <1>1, <1>a, <2>1 DEF Offer, Moves, Locals, Pcs
<1>2. CASE Find(p)
  BY <1>2, <1>c, <1>f, <1>g DEF Find, Onward, Pcs
<1>3. CASE LoadT(p)
  <2>1. t[loc[p].at] # 0 => t[loc[p].at] - 1 \in Nat
    BY <1>i
  <2> QED
    BY <1>3, <1>0, <1>f, <2>1 DEF LoadT, Moves, Locals, Pcs
<1>4. CASE SeeProbe(p)
  BY <1>4, <1>c DEF SeeProbe, Pcs
<1>5. CASE TakeProbe(p)
  <2>1. 1 \in 1..Cores
    BY ClockAssumption
  <2> QED
    BY <1>5, <1>b, <1>c, <2>1 DEF TakeProbe, Pcs
<1>6. CASE ReadSkip(p)
  BY <1>6, <1>0, <1>h, <1>i DEF ReadSkip, CallerOK
<1>7. CASE DecSkip(p)
  BY <1>7, <1>0, <1>b, <1>e DEF DecSkip, CallerOK
<1>8. CASE DecSkipFails(p)
  BY <1>8, <1>0, <1>h, <1>i DEF DecSkipFails, CallerOK
<1>9. CASE RunUnmeasured(p)
  BY <1>9, <1>z DEF RunUnmeasured
<1>10. ASSUME NEW ns \in Times, RunMeasured(p, ns)
       PROVE  Moves(p)
  <2>1. PICK w \in WarmOutcomes(loc[p].n, loc[p].workers) :
          Set(p, [loc[p] EXCEPT !.pc = "claim", !.at = home[loc[p].site], !.tries = 0,
                                !.est = Unknown, !.k = 0, !.ns = ns, !.warm = w])
    BY <1>10 DEF RunMeasured
  <2>2. ns \in Nat /\ 0 \in Entries /\ 0 \in 0..Probe
    BY ClockAssumption DEF Entries
  <2>4. w \in BOOLEAN
    BY DEF WarmOutcomes
  <2>3. home[loc[p].site] \in Entries
    BY <1>0, <1>10 DEF Types, CallerOK, RunMeasured
  <2> QED
    BY <1>0, <2>1, <2>2, <2>3, <2>4 DEF Moves, Locals, Pcs
<1>11. CASE RunUnwinds(p)
  BY <1>11, <1>z DEF RunUnwinds
<1>12. CASE Claim(p)
  BY <1>12, <1>z, <1>c, <1>g DEF Claim, Onward, Pcs
<1>13. CASE ClaimCas(p)
  BY <1>13, <1>z, <1>c, <1>g DEF ClaimCas, Onward, Pcs
<1>14. CASE ReadOld(p)
  <2>1. 1 \in 1..Cores
    BY ClockAssumption
  <2> QED
    BY <1>14, <1>0, <2>1, NewSkipType DEF ReadOld, Moves, Locals, Pcs
<1>15. CASE StoreSkip(p)
  BY <1>15, <1>c DEF StoreSkip, Pcs
<1>16. CASE StoreT(p)
  BY <1>16, <1>z DEF StoreT
<1> QED
  BY <1>1, <1>2, <1>3, <1>4, <1>5, <1>6, <1>7, <1>8, <1>9, <1>10, <1>11, <1>12, <1>13, <1>14, <1>15,
     <1>16 DEF Step

\* Only the caller that moves changes its locals.
LEMMA LocTypes ==
  ASSUME SitesInv, NEW p \in Callers, Step(p)
  PROVE  /\ loc' \in [Callers -> Locals]
         /\ \A q \in Callers \ {p} : loc'[q] = loc[q]
<1> QED
  BY StepMoves DEF Moves, Set, SitesInv, Types

\* Every step keeps the types.
LEMMA StepTypes ==
  ASSUME SitesInv, NEW p \in Callers, Step(p)
  PROVE  Types'
<1>0. Types /\ CallerOK(p) /\ loc[p] \in Locals
  BY DEF SitesInv, Types
<1>z. loc' \in [Callers -> Locals]
  BY LocTypes
<1> USE <1>0, <1>z DEF Types, table, history
<1>1. ASSUME NEW s \in Sites, NEW n \in Lens, Offer(p, s, n)
      PROVE  Types'
  <2>1. made' \in 0..MaxOffers
    BY <1>1, ClockAssumption DEF Offer
  <2>2. known' \in [Callers -> BOOLEAN]
    BY <1>1 DEF Offer
  <2>3. user' \in [Sites -> {NoUser} \cup (Callers \X (Nat \ {0, 1}))]
    <3>1. <<p, n>> \in Callers \X (Nat \ {0, 1})
      BY ClockAssumption
    <3> QED
      BY <1>1, <3>1 DEF Offer
  <2>4. mixed' \in [Sites -> BOOLEAN]
    BY <1>1 DEF Offer
  <2> QED
    BY <1>1, <2>1, <2>2, <2>3, <2>4 DEF Offer
<1>2. CASE Find(p)
  BY <1>2 DEF Find
<1>3. CASE LoadT(p)
  BY <1>3 DEF LoadT
<1>4. CASE SeeProbe(p)
  BY <1>4 DEF SeeProbe
<1>5. CASE TakeProbe(p)
  <2>1. loc[p].at \in Entries /\ loc[p].k \in 0..Probe /\ (loc[p].pc = "dec" => loc[p].k # 0)
    BY DEF Locals, CallerOK
  <2>2. skip' \in [Entries -> 0..Probe]
    <3>1. skip' = skip \/ skip' = [skip EXCEPT ![loc[p].at] = 0]
      BY <1>5 DEF TakeProbe
    <3>2. 0 \in 0..Probe
      BY <1>5, <2>1, ClockAssumption DEF TakeProbe
    <3> QED
      BY <2>1, <3>1, <3>2
  <2>3. passed' \in [Entries -> Nat]
    <3>1. passed' = passed \/ passed' = [passed EXCEPT ![loc[p].at] = @ + 1]
      BY <1>5 DEF TakeProbe
    <3> QED
      BY <2>1, <3>1
  <2> QED
    BY <1>5, <2>2, <2>3 DEF TakeProbe
<1>6. CASE ReadSkip(p)
  BY <1>6 DEF ReadSkip
<1>7. CASE DecSkip(p)
  <2>1. loc[p].at \in Entries /\ loc[p].k \in 0..Probe /\ (loc[p].pc = "dec" => loc[p].k # 0)
    BY DEF Locals, CallerOK
  <2>2. skip' \in [Entries -> 0..Probe]
    <3>1. skip' = skip \/ skip' = [skip EXCEPT ![loc[p].at] = loc[p].k - 1]
      BY <1>7 DEF DecSkip
    <3>2. loc[p].k - 1 \in 0..Probe
      BY <1>7, <2>1, ClockAssumption DEF DecSkip
    <3> QED
      BY <2>1, <3>1, <3>2
  <2>3. passed' \in [Entries -> Nat]
    <3>1. passed' = passed \/ passed' = [passed EXCEPT ![loc[p].at] = @ + 1]
      BY <1>7 DEF DecSkip
    <3> QED
      BY <2>1, <3>1
  <2> QED
    BY <1>7, <2>2, <2>3 DEF DecSkip
<1>8. CASE DecSkipFails(p)
  BY <1>8 DEF DecSkipFails
<1>9. CASE RunUnmeasured(p)
  BY <1>9 DEF RunUnmeasured
<1>10. ASSUME NEW ns \in Times, RunMeasured(p, ns)
       PROVE  Types'
  BY <1>10 DEF RunMeasured
<1>11. CASE RunUnwinds(p)
  BY <1>11 DEF RunUnwinds
<1>12. CASE Claim(p)
  BY <1>12 DEF Claim
<1>13. CASE ClaimCas(p)
  <2>1. key' \in [Entries -> Sites \cup {NoSite}]
    BY <1>13 DEF ClaimCas, Locals
  <2> QED
    BY <1>13, <2>1 DEF ClaimCas
<1>14. CASE ReadOld(p)
  BY <1>14 DEF ReadOld
<1>15. CASE StoreSkip(p)
  <2>1. loc[p].at \in Entries /\ loc[p].k \in 0..Probe
    BY DEF Locals
  <2> QED
    BY <1>15, <2>1 DEF StoreSkip
<1>16. CASE StoreT(p)
  <2>1. loc[p].at \in Entries /\ loc[p].ns + 1 \in Nat /\ loc[p].site \in Sites
    BY <1>16 DEF Locals, StoreT, CallerOK
  <2>2. t' \in [Entries -> Nat]
    BY <1>16, <2>1 DEF StoreT
  <2>3. from' \in [Entries -> Sites \cup {NoSite}]
    BY <1>16, <2>1 DEF StoreT
  <2>4. up' \in [Sites -> 0..2]
    BY <1>16, <2>1 DEF StoreT
  <2> QED
    BY <1>16, <2>2, <2>3, <2>4 DEF StoreT
<1> QED
  BY <1>1, <1>2, <1>3, <1>4, <1>5, <1>6, <1>7, <1>8, <1>9, <1>10, <1>11, <1>12, <1>13, <1>14,
     <1>15, <1>16 DEF Step
-----------------------------------------------------------------------------
(* The paths *)

\* A path leads from one entry to the next.
LEMMA PathNext ==
  ASSUME Types, NEW s \in Sites, NEW k \in Entries
  PROVE  /\ Path(s, k) \in Entries
         /\ Path(s, 0) = home[s]
         /\ k + 1 # TableLen => k + 1 \in Entries /\ Path(s, k + 1) = Following(Path(s, k))
<1>1. home[s] \in Entries /\ TableLen \in Nat \ {0}
  BY ClockAssumption DEF Types
<1>2. Path(s, k) \in Entries
  BY <1>1 DEF Path, Entries
<1>3. Following(Path(s, k)) = IF Path(s, k) + 1 = TableLen THEN 0 ELSE Path(s, k) + 1
  BY <1>2, FollowingIs
<1> QED
  BY <1>1, <1>2, <1>3 DEF Path, Entries

\* A site has no entry when a search for it ended at an empty one, or passed all.
LEMMA NoEntry ==
  ASSUME Types, KeyOK, NEW s \in Sites, NEW k \in Entries, Passed(s, k),
         \/ key[Path(s, k)] = NoSite
         \/ key[Path(s, k)] # s /\ k + 1 = TableLen
  PROVE  \A i \in Entries : key[i] # s
<1>0. s # NoSite
  BY ClockAssumption
<1>1. SUFFICES ASSUME NEW i \in Entries, key[i] = s
               PROVE  FALSE
  OBVIOUS
<1>2. PICK m \in Entries : i = Path(s, m) /\ Passed(s, m)
  BY <1>0, <1>1 DEF KeyOK
<1>3. m < k \/ m = k \/ (m > k /\ k + 1 # TableLen)
  BY ClockAssumption DEF Entries
<1>4. m < k => key[Path(s, m)] # s
  BY <1>2 DEF Passed
<1>5. m > k => key[Path(s, k)] # NoSite
  BY <1>2 DEF Passed
<1> QED
  BY <1>0, <1>1, <1>2, <1>3, <1>4, <1>5

\* No site has two entries.
LEMMA OneEntry ==
  ASSUME Types, KeyOK
  PROVE  \A i, j \in Entries : key[i] = key[j] /\ key[i] # NoSite => i = j
<1>1. SUFFICES ASSUME NEW i \in Entries, NEW j \in Entries, key[i] = key[j], key[i] # NoSite
               PROVE  i = j
  OBVIOUS
<1>0. key[i] \in Sites
  BY <1>1 DEF Types
<1>2. PICK m \in Entries : i = Path(key[i], m) /\ Passed(key[i], m)
  BY <1>0 DEF KeyOK
<1>3. PICK k \in Entries : j = Path(key[i], k) /\ Passed(key[i], k)
  BY <1>0, <1>1 DEF KeyOK
<1>4. m < k \/ m = k \/ m > k
  BY DEF Entries
<1>5. m < k => key[Path(key[i], m)] # key[i]
  BY <1>3 DEF Passed
<1>6. m > k => key[Path(key[i], k)] # key[i]
  BY <1>2 DEF Passed
<1> QED
  BY <1>1, <1>2, <1>3, <1>4, <1>5, <1>6

\* A step claims at most the empty entry its caller is at, and gives up no estimate.
Claims(p) ==
  /\ loc[p].pc = "cas" /\ key[loc[p].at] = NoSite
  /\ key' = [key EXCEPT ![loc[p].at] = loc[p].site]
  /\ loc' = [loc EXCEPT ![p] = [loc[p] EXCEPT !.pc = "old"]]
  /\ t' = t

\* What a step may do to the keys and the estimates.
KeyStep(p) ==
  /\ home' = home
  /\ key' = key \/ Claims(p)
  /\ \A i \in Entries : t[i] # 0 => t'[i] # 0

\* Every step is such a step.
LEMMA StepKeys ==
  ASSUME SitesInv, NEW p \in Callers, Step(p)
  PROVE  KeyStep(p)
<1>0. Types /\ loc[p] \in Locals
  BY DEF SitesInv, Types
<1> USE DEF table, history, KeyStep
<1>1. ASSUME NEW s \in Sites, NEW n \in Lens, Offer(p, s, n)
      PROVE  KeyStep(p)
  BY <1>1 DEF Offer
<1>2. CASE Find(p)
  BY <1>2 DEF Find
<1>3. CASE LoadT(p)
  BY <1>3 DEF LoadT
<1>4. CASE SeeProbe(p)
  BY <1>4 DEF SeeProbe
<1>5. CASE TakeProbe(p)
  BY <1>5 DEF TakeProbe
<1>6. CASE ReadSkip(p)
  BY <1>6 DEF ReadSkip
<1>7. CASE DecSkip(p)
  BY <1>7 DEF DecSkip
<1>8. CASE DecSkipFails(p)
  BY <1>8 DEF DecSkipFails
<1>9. CASE RunUnmeasured(p)
  BY <1>9 DEF RunUnmeasured
<1>10. ASSUME NEW ns \in Times, RunMeasured(p, ns)
       PROVE  KeyStep(p)
  BY <1>10 DEF RunMeasured
<1>11. CASE RunUnwinds(p)
  BY <1>11 DEF RunUnwinds
<1>12. CASE Claim(p)
  BY <1>12 DEF Claim
<1>13. CASE ClaimCas(p)
  BY <1>13 DEF ClaimCas, Claims, To, Set
<1>14. CASE ReadOld(p)
  BY <1>14 DEF ReadOld
<1>15. CASE StoreSkip(p)
  BY <1>15 DEF StoreSkip
<1>16. CASE StoreT(p)
  <2>1. loc[p].at \in Entries /\ loc[p].ns + 1 # 0
    BY <1>0 DEF Locals
  <2> QED
    BY <1>16, <1>0, <2>1 DEF StoreT, Types
<1> QED
  BY <1>1, <1>2, <1>3, <1>4, <1>5, <1>6, <1>7, <1>8, <1>9, <1>10, <1>11, <1>12, <1>13, <1>14,
     <1>15, <1>16 DEF Step

\* What a claimed entry belongs to stays.
LEMMA KeysKept ==
  ASSUME SitesInv, NEW p \in Callers, Step(p)
  PROVE  /\ \A i \in Entries : key[i] # NoSite => key'[i] = key[i]
         /\ \A s \in Sites, k \in Entries : Path(s, k)' = Path(s, k)
         /\ \A s \in Sites, k \in Entries : Passed(s, k) => Passed(s, k)'
         /\ \A s \in Sites : HasEst(s) => HasEst(s)'
<1>0. Types /\ home' = home /\ (key' = key \/ Claims(p)) /\ \A i \in Entries : t[i] # 0 => t'[i] # 0
  BY StepKeys DEF SitesInv, KeyStep
<1>1. \A i \in Entries : key[i] # NoSite => key'[i] = key[i]
  BY <1>0 DEF Claims, Types
<1>2. \A s \in Sites, k \in Entries : Path(s, k)' = Path(s, k) /\ Path(s, k) \in Entries
  BY <1>0, PathNext DEF Path
<1>3. ASSUME NEW s \in Sites, NEW k \in Entries, Passed(s, k)
      PROVE  Passed(s, k)'
  BY <1>1, <1>2, <1>3 DEF Passed
<1>4. ASSUME NEW s \in Sites, HasEst(s)
      PROVE  HasEst(s)'
  BY <1>0, <1>1, <1>4, ClockAssumption DEF HasEst
<1> QED
  BY <1>1, <1>2, <1>3, <1>4

\* An entry is claimed where a search for its site ends.
LEMMA StepKeyOK ==
  ASSUME SitesInv, NEW p \in Callers, Step(p)
  PROVE  KeyOK'
<1>0. Types /\ KeyOK /\ CallerOK(p) /\ loc[p] \in Locals /\ home' = home
  BY StepKeys DEF SitesInv, Types, KeyStep
<1>1. SUFFICES ASSUME NEW s \in Sites, NEW i \in Entries, key'[i] = s
               PROVE  \E k \in Entries : i = Path(s, k)' /\ Passed(s, k)'
  BY <1>0 DEF KeyOK, Entries
<1>2. CASE key[i] # NoSite
  <2>1. key[i] = s
    BY <1>1, <1>2, KeysKept
  <2>2. PICK k \in Entries : i = Path(s, k) /\ Passed(s, k)
    BY <1>0, <2>1 DEF KeyOK
  <2>3. i = Path(s, k)' /\ Passed(s, k)'
    BY <2>2, KeysKept
  <2> QED
    BY <2>3
<1>3. CASE key[i] = NoSite
  <2>1. Claims(p)
    BY <1>1, <1>3, StepKeys, ClockAssumption DEF KeyStep
  <2>2. i = loc[p].at /\ s = loc[p].site
    BY <1>0, <1>1, <1>3, <2>1, ClockAssumption DEF Claims, Types, Locals
  <2>3. loc[p].tries \in Entries /\ i = Path(s, loc[p].tries) /\ Passed(s, loc[p].tries)
    BY <1>0, <2>1, <2>2 DEF Claims, CallerOK, Locals
  <2>4. PICK k \in Entries : i = Path(s, k) /\ Passed(s, k)
    BY <2>3
  <2>5. i = Path(s, k)' /\ Passed(s, k)'
    BY <2>4, KeysKept
  <2> QED
    BY <2>5
<1> QED
  BY <1>2, <1>3

\* The caller that moves has walked its path, or holds its site's entry.
LEMMA MoverOK ==
  ASSUME SitesInv, NEW p \in Callers, Step(p)
  PROVE  CallerOK(p)'
<1> DEFINE l == loc[p]
<1>0. Types /\ CallerOK(p) /\ l \in Locals /\ TableLen \in Nat \ {0} /\ home' = home
  BY StepKeys, ClockAssumption DEF SitesInv, Types, KeyStep
<1>a. l.pc # "idle" /\ key[l.at] = l.site => key'[l.at] = l.site
  BY <1>0, KeysKept, ClockAssumption DEF CallerOK, Locals
<1>b. l.pc # "idle" => l.site \in Sites
  BY <1>0 DEF CallerOK
<1>c. loc'[p] = Idle => CallerOK(p)'
  BY DEF CallerOK, Idle
<1>e. \A x : Set(p, x) => loc'[p] = x
  BY <1>0 DEF Set, Types
<1>f. ASSUME NEW w, NEW m, Planned(p, w, m), l.pc # "idle"
      PROVE  CallerOK(p)'
  <2>1. loc'[p].pc = "run" /\ loc'[p].site = l.site
    BY <1>0, <1>f DEF Planned, Set, Types, Locals
  <2> QED
    BY <1>b, <1>f, <2>1 DEF CallerOK
<1>g. ASSUME l.pc \in {"find", "claim", "cas"}, key[l.at] \notin {l.site, NoSite}, l.tries + 1 # TableLen,
             Set(p, [l EXCEPT !.at = Following(@), !.tries = @ + 1]),
             l.pc = "cas" => key' = key
      PROVE  CallerOK(p)'
  <2>1. loc'[p].pc = l.pc /\ loc'[p].site = l.site /\ loc'[p].at = Following(l.at)
        /\ loc'[p].tries = l.tries + 1
    BY <1>0, <1>g DEF Set, Types, Locals
  <2>2. l.site \in Sites /\ l.tries \in Entries /\ l.at \in Entries
        /\ l.at = Path(l.site, l.tries) /\ Passed(l.site, l.tries)
    BY <1>0, <1>g DEF CallerOK, Locals
  <2>3. Following(l.at) = Path(l.site, l.tries + 1) /\ l.tries + 1 \in Entries
    BY <1>0, <1>g, <2>2, PathNext
  <2>4. Passed(l.site, l.tries + 1)
    BY <1>g, <2>2 DEF Passed, Entries
  <2>5. PICK s \in Sites, k \in Entries : s = l.site /\ k = l.tries + 1
    BY <2>2, <2>3
  <2>6. loc'[p].at = Path(s, k)' /\ Passed(s, k)'
    BY <2>1, <2>3, <2>4, <2>5, KeysKept
  <2>7. loc'[p].pc = l.pc /\ loc'[p].site = s /\ loc'[p].tries = k
    BY <2>1, <2>5
  <2> QED
    BY <1>g, <2>6, <2>7 DEF CallerOK, Path, Passed
<1>h. ASSUME NEW k, Decide(p, k), l.pc \in {"count", "dec"}
      PROVE  CallerOK(p)'
  <2>1. CASE k \in {0, Probe}
    BY <1>f, <1>h, <2>1 DEF Decide
  <2>2. CASE k \notin {0, Probe}
    <3>1. loc'[p].pc = "dec" /\ loc'[p].site = l.site /\ loc'[p].at = l.at /\ loc'[p].k = k
          /\ loc'[p].est = l.est
      <4>1. Set(p, [l EXCEPT !.pc = "dec", !.k = k])
        BY <1>h, <2>2 DEF Decide
      <4> QED
        BY <1>0, <1>e, <4>1 DEF Locals
    <3>2. l.est # Unknown /\ key[l.at] = l.site /\ l.site \in Sites
      BY <1>0, <1>h DEF CallerOK
    <3> QED
      BY <1>a, <1>h, <2>2, <3>1, <3>2 DEF CallerOK
  <2> QED
    BY <2>1, <2>2
<1>i. ASSUME NEW x \in Pcs, To(p, x)
      PROVE  loc'[p].pc = x /\ loc'[p].site = l.site /\ loc'[p].at = l.at /\ loc'[p].k = l.k
             /\ loc'[p].est = l.est /\ loc'[p].tries = l.tries
  BY <1>0, <1>i DEF To, Set, Types, Locals
<1>j. ASSUME NEW x \in {"load", "take", "count", "old", "skip", "t"}, To(p, x),
             l.pc # "idle", key'[l.at] = l.site,
             x \in {"take", "count"} => l.est # Unknown
      PROVE  CallerOK(p)'
  BY <1>b, <1>i, <1>j DEF CallerOK, Pcs
<1>1. ASSUME NEW s \in Sites, NEW n \in Lens, Offer(p, s, n)
      PROVE  CallerOK(p)'
  <2>1. loc'[p].pc = "find" /\ loc'[p].site = s /\ loc'[p].at = home[s] /\ loc'[p].tries = 0
    BY <1>0, <1>1 DEF Offer, Set, Types, Idle
  <2>2. 0 \in Entries
    BY <1>0 DEF Entries
  <2>3. home[s] = Path(s, 0) /\ Passed(s, 0)
    BY <1>0, <2>2, PathNext DEF Passed, Entries
  <2>4. home[s] = Path(s, 0)' /\ Passed(s, 0)'
    BY <2>2, <2>3, KeysKept
  <2> QED
    BY <2>1, <2>4 DEF CallerOK, Path, Passed
<1>2. CASE Find(p)
  <2>1. CASE key[l.at] = l.site
    BY <1>2, <1>a, <1>j, <1>b, <2>1, ClockAssumption DEF Find, Onward, PlanFirst
  <2>2. CASE key[l.at] = NoSite
    BY <1>2, <1>b, <1>f, <2>2, ClockAssumption DEF Find, PlanFirst
  <2>3. CASE key[l.at] \notin {l.site, NoSite}
    BY <1>2, <1>f, <1>g, <2>3 DEF Find, Onward, PlanFirst
  <2> QED
    BY <2>1, <2>2, <2>3
<1>3. CASE LoadT(p)
  <2>1. CASE t[l.at] = 0
    BY <1>3, <1>f, <2>1 DEF LoadT, PlanFirst
  <2>2. CASE t[l.at] # 0
    <3>1. loc'[p].pc = "probe" /\ loc'[p].site = l.site /\ loc'[p].at = l.at
          /\ loc'[p].est = t[l.at] - 1
      <4>1. Set(p, [l EXCEPT !.pc = "probe", !.est = t[l.at] - 1])
        BY <1>3, <2>2 DEF LoadT
      <4> QED
        BY <1>0, <1>e, <4>1 DEF Locals
    <3>2. t[l.at] - 1 # Unknown
      BY <1>0, <2>2 DEF Types, Locals, Unknown
    <3>3. l.pc = "load" /\ key[l.at] = l.site
      BY <1>0, <1>3 DEF LoadT, CallerOK
    <3> QED
      BY <1>a, <1>b, <3>1, <3>2, <3>3 DEF CallerOK
  <2> QED
    BY <2>1, <2>2
<1>4. CASE SeeProbe(p)
  <2>1. l.pc = "probe" /\ key[l.at] = l.site /\ l.est # Unknown
    BY <1>0, <1>4 DEF SeeProbe, CallerOK
  <2> QED
    BY <1>4, <1>a, <1>j, <2>1 DEF SeeProbe
<1>5. CASE TakeProbe(p)
  <2>1. l.pc = "take" /\ key[l.at] = l.site /\ l.est # Unknown
    BY <1>0, <1>5 DEF TakeProbe, CallerOK
  <2> QED
    BY <1>5, <1>a, <1>f, <1>j, <2>1 DEF TakeProbe
<1>6. CASE ReadSkip(p)
  BY <1>6, <1>h DEF ReadSkip
<1>7. CASE DecSkip(p)
  BY <1>7, <1>f DEF DecSkip
<1>8. CASE DecSkipFails(p)
  BY <1>8, <1>h DEF DecSkipFails
<1>9. CASE RunUnmeasured(p)
  BY <1>9, <1>c, <1>e DEF RunUnmeasured
<1>10. ASSUME NEW ns \in Times, RunMeasured(p, ns)
       PROVE  CallerOK(p)'
  <2>1. loc'[p].pc = "claim" /\ loc'[p].site = l.site /\ loc'[p].at = home[l.site]
        /\ loc'[p].tries = 0
    BY <1>0, <1>10 DEF RunMeasured, Set, Types, Locals
  <2>2. 0 \in Entries /\ l.site \in Sites
    BY <1>0, <1>10, <1>b DEF Entries, RunMeasured
  <2>3. home[l.site] = Path(l.site, 0) /\ Passed(l.site, 0)
    BY <1>0, <2>2, PathNext DEF Passed, Entries
  <2>4. PICK s \in Sites : s = l.site
    BY <2>2
  <2>5. home[s] = Path(s, 0)' /\ Passed(s, 0)'
    BY <2>2, <2>3, <2>4, KeysKept
  <2> QED
    BY <2>1, <2>4, <2>5 DEF CallerOK, Path, Passed
<1>11. CASE RunUnwinds(p)
  BY <1>11, <1>c, <1>e DEF RunUnwinds
<1>12. CASE Claim(p)
  <2>0. l.pc = "claim" /\ key' = key
    BY <1>12 DEF Claim, table
  <2>1. CASE key[l.at] = l.site
    BY <1>12, <1>a, <1>b, <1>j, <2>0, <2>1, ClockAssumption DEF Claim
  <2>2. CASE key[l.at] = NoSite
    <3>1. To(p, "cas")
      BY <1>12, <1>b, <2>0, <2>2, ClockAssumption DEF Claim
    <3>2. loc'[p].pc = "cas" /\ loc'[p].site = l.site /\ loc'[p].at = l.at /\ loc'[p].tries = l.tries
      BY <1>i, <3>1 DEF Pcs
    <3>3. l.site \in Sites /\ l.tries \in Entries /\ l.at = Path(l.site, l.tries)
          /\ Passed(l.site, l.tries)
      BY <1>0, <2>0 DEF CallerOK, Locals
    <3>4. PICK s \in Sites, k \in Entries : s = l.site /\ k = l.tries
      BY <3>3
    <3>5. loc'[p].at = Path(s, k)' /\ Passed(s, k)'
      BY <3>2, <3>3, <3>4, KeysKept
    <3>6. loc'[p].pc = "cas" /\ loc'[p].site = s /\ loc'[p].tries = k
      BY <3>2, <3>4
    <3> QED
      BY <3>5, <3>6 DEF CallerOK, Path, Passed
  <2>3. CASE key[l.at] \notin {l.site, NoSite}
    BY <1>12, <1>c, <1>e, <1>g, <2>0, <2>3 DEF Claim, Onward
  <2> QED
    BY <2>1, <2>2, <2>3
<1>13. CASE ClaimCas(p)
  <2>0. l.pc = "cas" /\ l.at \in Entries
    BY <1>13, <1>0 DEF ClaimCas, Locals
  <2>1. CASE key[l.at] \in {NoSite, l.site}
    <3>1. To(p, "old") /\ key'[l.at] = l.site
      BY <1>13, <1>0, <2>0, <2>1 DEF ClaimCas, Types
    <3> QED
      BY <1>j, <2>0, <3>1
  <2>2. CASE key[l.at] \notin {l.site, NoSite}
    BY <1>13, <1>c, <1>e, <1>g, <2>0, <2>2 DEF ClaimCas, Onward
  <2> QED
    BY <2>1, <2>2
<1>14. CASE ReadOld(p)
  <2>1. loc'[p].pc = "skip" /\ loc'[p].site = l.site /\ loc'[p].at = l.at
    BY <1>0, <1>14 DEF ReadOld, Set, Types, Locals
  <2>2. l.pc = "old" /\ key[l.at] = l.site
    BY <1>0, <1>14 DEF ReadOld, CallerOK
  <2> QED
    BY <1>a, <1>b, <2>1, <2>2 DEF CallerOK
<1>15. CASE StoreSkip(p)
  <2>1. l.pc = "skip" /\ key[l.at] = l.site
    BY <1>0, <1>15 DEF StoreSkip, CallerOK
  <2> QED
    BY <1>15, <1>a, <1>j, <2>1 DEF StoreSkip
<1>16. CASE StoreT(p)
  BY <1>16, <1>c, <1>e DEF StoreT
<1> QED
  BY <1>1, <1>2, <1>3, <1>4, <1>5, <1>6, <1>7, <1>8, <1>9, <1>10, <1>11, <1>12, <1>13, <1>14,
     <1>15, <1>16 DEF Step

\* So has every other.
LEMMA CallersOK ==
  ASSUME SitesInv, NEW p \in Callers, Step(p), NEW q \in Callers
  PROVE  CallerOK(q)'
<1>1. CASE q = p
  BY <1>1, MoverOK
<1>2. CASE q # p
  <2>1. CallerOK(q) /\ loc[q] \in Locals /\ loc'[q] = loc[q] /\ Types
    BY <1>2, LocTypes DEF SitesInv, Types
  <2>2. loc[q].pc # "idle" => loc[q].site \in Sites
    BY <2>1 DEF CallerOK
  <2>3. loc[q].site \in Sites /\ key[loc[q].at] = loc[q].site => key'[loc[q].at] = loc[q].site
    BY <2>1, KeysKept, ClockAssumption DEF Locals
  <2>4. loc[q].site \in Sites =>
          /\ Path(loc[q].site, loc[q].tries)' = Path(loc[q].site, loc[q].tries)
          /\ Passed(loc[q].site, loc[q].tries) => Passed(loc[q].site, loc[q].tries)'
    <3>1. \A s \in Sites, k \in Entries : Path(s, k)' = Path(s, k) /\ (Passed(s, k) => Passed(s, k)')
      BY KeysKept
    <3> QED
      BY <2>1, <3>1 DEF Locals, Path, Passed
  <2> QED
    BY <2>1, <2>2, <2>3, <2>4 DEF CallerOK
<1> QED
  BY <1>1, <1>2

\* The estimate in an entry was measured at the entry's site.
LEMMA RecordsKept ==
  ASSUME SitesInv, NEW p \in Callers, Step(p)
  PROVE  \A i \in Entries : t'[i] # 0 => key'[i] # NoSite /\ from'[i] = key'[i]
<1>0. Types /\ CallerOK(p) /\ loc[p] \in Locals /\ EstOK
  BY DEF SitesInv, Types
<1>1. (t' = t /\ from' = from) \/ StoreT(p)
  BY DEF Step, Offer, Find, LoadT, SeeProbe, TakeProbe, ReadSkip, DecSkip, DecSkipFails, RunUnmeasured,
         RunMeasured, RunUnwinds, Claim, ClaimCas, ReadOld, StoreSkip, table, history
<1>2. CASE t' = t /\ from' = from
  BY <1>0, <1>2, KeysKept DEF EstOK
<1>3. CASE StoreT(p)
  <2>1. key' = key /\ key[loc[p].at] = loc[p].site /\ loc[p].site \in Sites /\ loc[p].at \in Entries
    BY <1>0, <1>3 DEF StoreT, CallerOK, Locals
  <2>2. \A i \in Entries : i # loc[p].at => t'[i] = t[i] /\ from'[i] = from[i]
    BY <1>0, <1>3 DEF StoreT, Types
  <2>3. from'[loc[p].at] = loc[p].site
    BY <1>0, <1>3, <2>1 DEF StoreT, Types
  <2> QED
    BY <1>0, <2>1, <2>2, <2>3, ClockAssumption DEF EstOK
<1> QED
  BY <1>1, <1>2, <1>3

\* An offer that plans as a site's first began when the site had no estimate.
KnownOK(p) ==
  /\ loc[p].pc \in {"find", "load"} /\ known[p] => HasEst(loc[p].site)
  /\ loc[p].pc = "run" /\ loc[p].est = Unknown => ~known[p]

\* A search that finds nothing, or an entry without an estimate, is at a site
\* without one.
LEMMA FirstIsFirst ==
  ASSUME SitesInv, NEW p \in Callers,
         \/ Find(p) /\ key[loc[p].at] # loc[p].site
            /\ (key[loc[p].at] # NoSite => loc[p].tries + 1 = TableLen)
         \/ LoadT(p) /\ t[loc[p].at] = 0
  PROVE  ~HasEst(loc[p].site)
<1>0. Types /\ CallerOK(p) /\ loc[p] \in Locals /\ KeyOK
  BY DEF SitesInv, Types
<1>1. CASE Find(p)
  <2>1. loc[p].site \in Sites /\ loc[p].tries \in Entries /\ Passed(loc[p].site, loc[p].tries)
        /\ loc[p].at = Path(loc[p].site, loc[p].tries)
    BY <1>0, <1>1 DEF Find, CallerOK, Locals
  <2>2. key[loc[p].at] # loc[p].site /\ (key[loc[p].at] # NoSite => loc[p].tries + 1 = TableLen)
    BY <1>1 DEF Find, LoadT
  <2>3. \A i \in Entries : key[i] # loc[p].site
    BY <1>0, <2>1, <2>2, NoEntry
  <2> QED
    BY <2>3 DEF HasEst
<1>2. CASE LoadT(p)
  <2>1. key[loc[p].at] = loc[p].site /\ loc[p].site # NoSite /\ loc[p].at \in Entries /\ t[loc[p].at] = 0
    BY <1>0, <1>2, ClockAssumption DEF Find, LoadT, CallerOK, Locals
  <2> QED
    BY <1>0, <2>1, OneEntry DEF HasEst
<1> QED
  BY <1>1, <1>2

\* The caller that moves plans as a first only at a site without an estimate.
LEMMA MoverKnown ==
  ASSUME SitesInv, NEW p \in Callers, Step(p)
  PROVE  KnownOK(p)'
<1> DEFINE l == loc[p]
<1>0. Types /\ CallerOK(p) /\ l \in Locals /\ KnownOK(p)
  BY DEF SitesInv, Types, EstOK, KnownOK
<1>a. ASSUME loc'[p].pc \notin {"find", "load", "run"}
      PROVE  KnownOK(p)'
  BY <1>a DEF KnownOK
<1>b. ASSUME NEW w, NEW m, Planned(p, w, m), l.est # Unknown
      PROVE  KnownOK(p)'
  <2>1. loc'[p].pc = "run" /\ loc'[p].est = l.est
    BY <1>0, <1>b DEF Planned, Set, Types, Locals
  <2> QED
    BY <1>b, <2>1 DEF KnownOK
<1>c. ASSUME PlanFirst(p), ~HasEst(l.site), l.pc \in {"find", "load"}, known' = known
      PROVE  KnownOK(p)'
  <2>1. loc'[p].pc = "run"
    BY <1>0, <1>c DEF PlanFirst, Planned, Set, Types, Locals
  <2>2. ~known[p]
    BY <1>0, <1>c DEF KnownOK
  <2> QED
    BY <1>c, <2>1, <2>2 DEF KnownOK
<1>d. ASSUME loc'[p].pc \in {"find", "load"}, loc'[p].site = l.site, l.pc = "find", known' = known
      PROVE  KnownOK(p)'
  <2>1. PICK s \in Sites : s = l.site
    BY <1>0, <1>d DEF CallerOK
  <2>2. known[p] => HasEst(s)
    BY <1>0, <1>d, <2>1 DEF KnownOK
  <2>3. known[p] => HasEst(s)'
    BY <2>2, KeysKept
  <2> QED
    BY <1>d, <2>1, <2>3 DEF KnownOK, HasEst
<1>e. \A x : Set(p, x) => loc'[p] = x
  BY <1>0 DEF Set, Types
<1>f. ASSUME NEW x \in Pcs, To(p, x)
      PROVE  loc'[p].pc = x /\ loc'[p].site = l.site
  BY <1>0, <1>f DEF To, Set, Types, Locals
<1>g. Set(p, Idle) => KnownOK(p)'
  BY <1>a, <1>e DEF Idle
<1>h. ASSUME NEW k, Decide(p, k), l.est # Unknown
      PROVE  KnownOK(p)'
  <2>1. CASE k \in {0, Probe}
    BY <1>b, <1>h, <2>1 DEF Decide
  <2>2. CASE k \notin {0, Probe}
    <3>1. Set(p, [l EXCEPT !.pc = "dec", !.k = k])
      BY <1>h, <2>2 DEF Decide
    <3> QED
      BY <1>0, <1>a, <1>e, <3>1 DEF Locals
  <2> QED
    BY <2>1, <2>2
<1>i. ASSUME Set(p, [l EXCEPT !.at = Following(@), !.tries = @ + 1])
      PROVE  loc'[p].pc = l.pc /\ loc'[p].site = l.site
  BY <1>0, <1>i, <1>e DEF Locals
<1>j. l.pc \in {"probe", "take", "count", "dec"} => l.est # Unknown
  BY <1>0 DEF CallerOK
<1>1. ASSUME NEW s \in Sites, NEW n \in Lens, Offer(p, s, n)
      PROVE  KnownOK(p)'
  <2>1. loc'[p].pc = "find" /\ loc'[p].site = s
    BY <1>0, <1>1 DEF Offer, Set, Types, Idle
  <2>2. known'[p] => HasEst(s)
    BY <1>0, <1>1 DEF Offer, Types, HasEst
  <2>3. known'[p] => HasEst(s)'
    BY <2>2, KeysKept
  <2> QED
    BY <2>1, <2>3 DEF KnownOK, HasEst
<1>2. CASE Find(p)
  <2>0. l.pc = "find" /\ known' = known
    BY <1>2 DEF Find, history
  <2>1. CASE key[l.at] = l.site
    <3>1. To(p, "load")
      BY <1>0, <1>2, <2>1, <2>0, ClockAssumption DEF Find, CallerOK
    <3> QED
      BY <1>d, <1>f, <2>0, <3>1 DEF Pcs
  <2>2. CASE key[l.at] # l.site /\ (key[l.at] # NoSite => l.tries + 1 = TableLen)
    <3>1. PlanFirst(p)
      BY <1>2, <2>2 DEF Find, Onward
    <3> QED
      BY <1>2, <1>c, <2>0, <2>2, <3>1, FirstIsFirst
  <2>3. CASE key[l.at] \notin {l.site, NoSite} /\ l.tries + 1 # TableLen
    <3>1. Set(p, [l EXCEPT !.at = Following(@), !.tries = @ + 1])
      BY <1>2, <2>3 DEF Find, Onward
    <3> QED
      BY <1>d, <1>i, <2>0, <3>1
  <2> QED
    BY <2>1, <2>2, <2>3
<1>3. CASE LoadT(p)
  <2>0. l.pc = "load" /\ known' = known
    BY <1>3 DEF LoadT, history
  <2>1. CASE t[l.at] = 0
    BY <1>3, <1>c, <2>0, <2>1, FirstIsFirst DEF LoadT
  <2>2. CASE t[l.at] # 0
    <3>1. Set(p, [l EXCEPT !.pc = "probe", !.est = t[l.at] - 1])
      BY <1>3, <2>2 DEF LoadT
    <3> QED
      BY <1>0, <1>a, <1>e, <3>1 DEF Locals
  <2> QED
    BY <2>1, <2>2
<1>4. CASE SeeProbe(p)
  BY <1>4, <1>a, <1>f DEF SeeProbe, Pcs
<1>5. CASE TakeProbe(p)
  BY <1>5, <1>a, <1>b, <1>f, <1>j DEF TakeProbe, Pcs
<1>6. CASE ReadSkip(p)
  BY <1>6, <1>h, <1>j DEF ReadSkip
<1>7. CASE DecSkip(p)
  BY <1>7, <1>b, <1>j DEF DecSkip
<1>8. CASE DecSkipFails(p)
  BY <1>8, <1>h, <1>j DEF DecSkipFails
<1>9. CASE RunUnmeasured(p)
  BY <1>9, <1>g DEF RunUnmeasured
<1>10. ASSUME NEW ns \in Times, RunMeasured(p, ns)
       PROVE  KnownOK(p)'
  <2>1. loc'[p].pc = "claim"
    BY <1>0, <1>10 DEF RunMeasured, Set, Types, Locals
  <2> QED
    BY <1>a, <2>1
<1>11. CASE RunUnwinds(p)
  BY <1>11, <1>g DEF RunUnwinds
<1>12. CASE Claim(p)
  BY <1>12, <1>a, <1>f, <1>g, <1>i DEF Claim, Onward, Pcs
<1>13. CASE ClaimCas(p)
  BY <1>13, <1>a, <1>f, <1>g, <1>i DEF ClaimCas, Onward, Pcs
<1>14. CASE ReadOld(p)
  <2>1. loc'[p].pc = "skip"
    BY <1>0, <1>14 DEF ReadOld, Set, Types, Locals
  <2> QED
    BY <1>a, <2>1
<1>15. CASE StoreSkip(p)
  BY <1>15, <1>a, <1>f DEF StoreSkip, Pcs
<1>16. CASE StoreT(p)
  BY <1>16, <1>g DEF StoreT
<1> QED
  BY <1>1, <1>2, <1>3, <1>4, <1>5, <1>6, <1>7, <1>8, <1>9, <1>10, <1>11, <1>12, <1>13, <1>14,
     <1>15, <1>16 DEF Step

\* Every step keeps the estimates.
LEMMA StepEst ==
  ASSUME SitesInv, NEW p \in Callers, Step(p)
  PROVE  EstOK'
<1>1. ASSUME NEW q \in Callers, q # p
      PROVE  KnownOK(q)'
  <2>1. CallerOK(q) /\ KnownOK(q) /\ loc'[q] = loc[q]
    BY <1>1, LocTypes DEF SitesInv, EstOK, KnownOK
  <2>2. known'[q] = known[q]
    BY <1>1 DEF Step, Offer, Find, LoadT, SeeProbe, TakeProbe, ReadSkip, DecSkip, DecSkipFails, StoreT,
         RunUnmeasured, RunMeasured, RunUnwinds, Claim, ClaimCas, ReadOld, StoreSkip, history,
         SitesInv, Types
  <2>3. CASE loc[q].pc \in {"find", "load"} /\ known[q]
    <3>1. PICK s \in Sites : s = loc[q].site
      BY <2>1, <2>3 DEF CallerOK
    <3>2. HasEst(s)'
      BY <2>1, <2>3, <3>1, KeysKept DEF KnownOK
    <3> QED
      BY <2>1, <2>3, <3>1, <3>2 DEF KnownOK, HasEst
  <2>4. CASE ~(loc[q].pc \in {"find", "load"} /\ known[q])
    BY <2>1, <2>2, <2>4 DEF KnownOK
  <2> QED
    BY <2>3, <2>4
<1>2. \A q \in Callers : KnownOK(q)'
  BY <1>1, MoverKnown
<1> QED
  BY <1>2, RecordsKept DEF EstOK, KnownOK

\* The table starts empty.
LEMMA InitSites ==
  ASSUME Init
  PROVE  SitesInv
<1> USE ClockAssumption DEF Init
<1>1. Idle \in Locals
  BY DEF Idle, Locals, Pcs, Entries
<1>2. Types
  BY <1>1 DEF Types
<1>3. KeyOK /\ EstOK /\ \A p \in Callers : CallerOK(p)
  BY DEF KeyOK, EstOK, CallerOK, Idle
<1> QED
  BY <1>2, <1>3 DEF SitesInv

\* Every step keeps the table.
LEMMA NextSites ==
  ASSUME SitesInv, [Next]_vars
  PROVE  SitesInv'
<1>1. ASSUME NEW p \in Callers, Step(p)
      PROVE  SitesInv'
  BY <1>1, StepTypes, StepKeyOK, CallersOK, StepEst DEF SitesInv
<1>2. CASE UNCHANGED vars
  BY <1>2 DEF vars, table, history, SitesInv, Types, KeyOK, CallerOK, EstOK, Path, Passed, HasEst
<1> QED
  BY <1>1, <1>2 DEF Next, Step

\* SitesInv holds in every reachable state: every claimed entry is where a
\* search for its site ends, a searching caller has passed only other sites'
\* entries, and a caller past its search is at its site's entry.
THEOREM SitesInvariant == Spec => []SitesInv
<1> QED
  BY InitSites, NextSites, PTL DEF Spec

\* The table of sites is kept without a lock: an estimate was measured at the
\* site whose entry it is in, no site has two entries, an offer that plans as a
\* site's first began when the site had no estimate, and every word has its
\* type.
THEOREM SitesAreKept == Spec => []SitesKept
<1>1. ASSUME SitesInv
      PROVE  SitesKept
  <2>1. Types /\ KeyOK /\ EstOK
    BY <1>1 DEF SitesInv
  <2>2. TypeOK
    BY <2>1 DEF TypeOK, Types, Locals
  <2> QED
    BY <2>1, <2>2, OneEntry DEF SitesKept, EstOK
<1> QED
  BY <1>1, SitesInvariant, PTL
-----------------------------------------------------------------------------
(* SkipExact *)

\* A step keeps the balance of unmeasured offers.
LEMMA StepSkip ==
  ASSUME SitesInv, SkipExact, NEW p \in Callers, Step(p)
  PROVE  SkipExact'
<1>0. Types /\ CallerOK(p) /\ loc[p] \in Locals /\ Probe \in Nat \ {0}
  BY ClockAssumption DEF SitesInv, Types
<1>1. UNCHANGED <<skip, put, passed>> \/ TakeProbe(p) \/ DecSkip(p) \/ StoreSkip(p)
  BY DEF Step, Offer, Find, LoadT, SeeProbe, TakeProbe, ReadSkip, DecSkip, DecSkipFails, RunUnmeasured,
         RunMeasured, RunUnwinds, Claim, ClaimCas, ReadOld, StoreSkip, StoreT, table, history
<1>2. CASE UNCHANGED <<skip, put, passed>>
  BY <1>2 DEF SkipExact
<1>3. ASSUME NEW i \in Entries, i # loc[p].at
      PROVE  skip'[i] = skip[i] /\ put'[i] = put[i] /\ passed'[i] = passed[i]
  BY <1>0, <1>1, <1>3 DEF TakeProbe, DecSkip, StoreSkip, Types
<1> DEFINE i == loc[p].at
<1>4. i \in Entries /\ put[i] \in 0..Probe /\ passed[i] \in Nat /\ skip[i] \in 0..Probe
  BY <1>0 DEF Types, Locals
<1>5. CASE TakeProbe(p) /\ skip[i] = Probe
  <2>1. skip'[i] = 0 /\ passed'[i] = passed[i] + 1 /\ put'[i] = put[i]
    BY <1>0, <1>4, <1>5 DEF TakeProbe, Types
  <2>2. put[i] = Probe /\ passed[i] = 0
    BY <1>0, <1>4, <1>5 DEF SkipExact
  <2> QED
    BY <1>3, <1>4, <2>1, <2>2 DEF SkipExact
<1>6. CASE DecSkip(p)
  <2>1. skip'[i] = skip[i] - 1 /\ passed'[i] = passed[i] + 1 /\ put'[i] = put[i]
    BY <1>0, <1>4, <1>6 DEF DecSkip, Types
  <2>2. skip[i] \notin {0, Probe}
    BY <1>0, <1>6 DEF DecSkip, CallerOK
  <2>3. put[i] # Probe /\ skip[i] = put[i] - passed[i]
    BY <1>4, <2>2 DEF SkipExact
  <2> QED
    BY <1>3, <1>4, <2>1, <2>3 DEF SkipExact
<1>7. CASE StoreSkip(p)
  <2>1. skip'[i] = loc[p].k /\ passed'[i] = 0 /\ put'[i] = loc[p].k /\ loc[p].k \in 0..Probe
    BY <1>0, <1>4, <1>7 DEF StoreSkip, Types, Locals
  <2> QED
    BY <1>3, <1>4, <2>1 DEF SkipExact
<1>8. CASE TakeProbe(p) /\ skip[i] # Probe
  BY <1>2, <1>8 DEF TakeProbe
<1> QED
  BY <1>1, <1>2, <1>5, <1>6, <1>7, <1>8

\* A record that lets k offers go unmeasured lets through exactly k, and one
\* that asks for a probe gets exactly one, for any number of racing callers.
THEOREM SkipIsExact == Spec => []SkipExact
<1>1. Init => SkipExact
  BY ClockAssumption DEF Init, SkipExact
<1>2. ASSUME SitesInv, SkipExact, [Next]_vars
      PROVE  SkipExact'
  <2>1. CASE UNCHANGED vars
    BY <1>2, <2>1 DEF vars, table, history, SkipExact
  <2> QED
    BY <1>2, <2>1, StepSkip DEF Next, Step
<1> QED
  BY <1>1, <1>2, SitesInvariant, PTL DEF Spec
-----------------------------------------------------------------------------
(* TwoInARow *)

\* An offer goes on at its site and with its length until it ends.
SameOffer(p) ==
  /\ loc[p].pc # "idle"
  /\ loc'[p].pc = "idle" \/ (loc'[p].site = loc[p].site /\ loc'[p].n = loc[p].n)

\* Every step but the one that makes an offer goes on with one.
LEMMA StepSame ==
  ASSUME SitesInv, NEW p \in Callers, Step(p)
  PROVE  SameOffer(p) \/ \E s \in Sites, n \in Lens : Offer(p, s, n)
<1>0. Types /\ loc[p] \in Locals
  BY DEF SitesInv, Types
<1>a. \A x : Set(p, x) => loc'[p] = x
  BY <1>0 DEF Set, Types
<1>b. ASSUME NEW w, NEW m, Planned(p, w, m)
      PROVE  loc'[p].site = loc[p].site /\ loc'[p].n = loc[p].n
  BY <1>0, <1>b DEF Planned, Set, Types, Locals
<1>c. ASSUME NEW x, To(p, x)
      PROVE  loc'[p].site = loc[p].site /\ loc'[p].n = loc[p].n
  BY <1>0, <1>c DEF To, Set, Types, Locals
<1>d. Set(p, Idle) => loc'[p].pc = "idle"
  BY <1>a DEF Idle
<1>e. ASSUME Set(p, [loc[p] EXCEPT !.at = Following(@), !.tries = @ + 1])
      PROVE  loc'[p].site = loc[p].site /\ loc'[p].n = loc[p].n
  BY <1>0, <1>e DEF Set, Types, Locals
<1>f. ASSUME NEW k, Decide(p, k)
      PROVE  loc'[p].site = loc[p].site /\ loc'[p].n = loc[p].n
  <2>1. CASE k \in {0, Probe}
    BY <1>b, <1>f, <2>1 DEF Decide
  <2>2. CASE k \notin {0, Probe}
    <3>1. Set(p, [loc[p] EXCEPT !.pc = "dec", !.k = k])
      BY <1>f, <2>2 DEF Decide
    <3> QED
      BY <1>0, <1>a, <3>1 DEF Locals
  <2> QED
    BY <2>1, <2>2
<1> USE DEF SameOffer
<1>2. CASE Find(p)
  BY <1>2, <1>b, <1>c, <1>e DEF Find, Onward, PlanFirst
<1>3. CASE LoadT(p)
  <2>1. CASE t[loc[p].at] = 0
    BY <1>3, <1>b, <2>1 DEF LoadT, PlanFirst
  <2>2. CASE t[loc[p].at] # 0
    <3>1. Set(p, [loc[p] EXCEPT !.pc = "probe", !.est = t[loc[p].at] - 1])
      BY <1>3, <2>2 DEF LoadT
    <3> QED
      BY <1>0, <1>3, <1>a, <3>1 DEF LoadT, Locals
  <2> QED
    BY <2>1, <2>2
<1>4. CASE SeeProbe(p)
  BY <1>4, <1>c DEF SeeProbe
<1>5. CASE TakeProbe(p)
  BY <1>5, <1>b, <1>c DEF TakeProbe
<1>6. CASE ReadSkip(p)
  BY <1>6, <1>f DEF ReadSkip
<1>7. CASE DecSkip(p)
  BY <1>7, <1>b DEF DecSkip
<1>8. CASE DecSkipFails(p)
  BY <1>8, <1>f DEF DecSkipFails
<1>9. CASE RunUnmeasured(p)
  BY <1>9, <1>d DEF RunUnmeasured
<1>10. ASSUME NEW ns \in Times, RunMeasured(p, ns)
       PROVE  SameOffer(p) \/ \E s \in Sites, n \in Lens : Offer(p, s, n)
  BY <1>0, <1>10 DEF RunMeasured, Set, Types, Locals
<1>11. CASE RunUnwinds(p)
  BY <1>11, <1>d DEF RunUnwinds
<1>12. CASE Claim(p)
  BY <1>12, <1>c, <1>d, <1>e DEF Claim, Onward
<1>13. CASE ClaimCas(p)
  BY <1>13, <1>c, <1>d, <1>e DEF ClaimCas, Onward
<1>14. CASE ReadOld(p)
  BY <1>0, <1>14 DEF ReadOld, Set, Types, Locals
<1>15. CASE StoreSkip(p)
  BY <1>15, <1>c DEF StoreSkip
<1>16. CASE StoreT(p)
  BY <1>16, <1>d DEF StoreT
<1> QED
  BY <1>2, <1>3, <1>4, <1>5, <1>6, <1>7, <1>8, <1>9, <1>10, <1>11, <1>12, <1>13, <1>14,
     <1>15, <1>16 DEF Step

\* What a step of p leaves of the sites p is not at.
LEMMA Elsewhere ==
  ASSUME SitesInv, NEW p \in Callers, Step(p)
  PROVE  /\ \A s \in Sites : user[s] # NoUser => user'[s] = user[s]
         /\ \A s \in Sites : mixed[s] => mixed'[s]
         /\ \A s \in Sites : s # loc[p].site => up'[s] = up[s]
         /\ \A i \in Entries : i # loc[p].at => skip'[i] = skip[i] /\ t'[i] = t[i]
         /\ loc[p].pc \notin {"take", "dec", "skip", "t"} =>
              UNCHANGED <<skip, t, up>>
<1>0. Types /\ CallerOK(p) /\ loc[p] \in Locals
  BY DEF SitesInv, Types
<1>1. \A s \in Sites : (user[s] # NoUser => user'[s] = user[s]) /\ (mixed[s] => mixed'[s])
  <2>1. (user' = user /\ mixed' = mixed) \/ RunUnwinds(p) \/ \E s \in Sites, n \in Lens : Offer(p, s, n)
    BY DEF Step, Offer, Find, LoadT, SeeProbe, TakeProbe, ReadSkip, DecSkip, DecSkipFails, RunUnmeasured,
         RunMeasured, RunUnwinds, Claim, ClaimCas, ReadOld, StoreSkip, StoreT, table, history
  <2>2. CASE RunUnwinds(p)
    BY <1>0, <2>2 DEF RunUnwinds, Types
  <2>3. ASSUME NEW s \in Sites, NEW n \in Lens, Offer(p, s, n)
        PROVE  \A r \in Sites : (user[r] # NoUser => user'[r] = user[r]) /\ (mixed[r] => mixed'[r])
    BY <1>0, <2>3 DEF Offer, Types
  <2> QED
    BY <2>1, <2>2, <2>3
<1>2. up' = up \/ StoreT(p)
  BY DEF Step, Offer, Find, LoadT, SeeProbe, TakeProbe, ReadSkip, DecSkip, DecSkipFails, RunUnmeasured,
         RunMeasured, RunUnwinds, Claim, ClaimCas, ReadOld, StoreSkip, StoreT, table, history
<1>3. \A s \in Sites : s # loc[p].site => up'[s] = up[s]
  BY <1>0, <1>2 DEF StoreT, Types
<1>4. t' = t \/ StoreT(p)
  BY DEF Step, Offer, Find, LoadT, SeeProbe, TakeProbe, ReadSkip, DecSkip, DecSkipFails, RunUnmeasured,
         RunMeasured, RunUnwinds, Claim, ClaimCas, ReadOld, StoreSkip, StoreT, table, history
<1>5. skip' = skip \/ TakeProbe(p) \/ DecSkip(p) \/ StoreSkip(p)
  BY DEF Step, Offer, Find, LoadT, SeeProbe, TakeProbe, ReadSkip, DecSkip, DecSkipFails, RunUnmeasured,
         RunMeasured, RunUnwinds, Claim, ClaimCas, ReadOld, StoreSkip, StoreT, table, history
<1>6. \A i \in Entries : i # loc[p].at => t'[i] = t[i]
  BY <1>0, <1>4 DEF StoreT, Types
<1>7. \A i \in Entries : i # loc[p].at => skip'[i] = skip[i]
  BY <1>0, <1>5 DEF TakeProbe, DecSkip, StoreSkip, Types
<1>8. loc[p].pc \notin {"take", "dec", "skip", "t"} => UNCHANGED <<skip, t, up>>
  BY <1>2, <1>4, <1>5 DEF StoreT, TakeProbe, DecSkip, StoreSkip
<1> QED
  BY <1>1, <1>3, <1>6, <1>7, <1>8

\* A site with one user has one caller at a time.
LEMMA OneUser ==
  ASSUME UserOK, NEW p \in Callers, NEW q \in Callers, loc[p].pc # "idle", loc[q].pc # "idle",
         loc[p].site = loc[q].site, ~mixed[loc[p].site]
  PROVE  p = q
<1>1. user[loc[p].site] = <<p, loc[p].n>> /\ user[loc[p].site] = <<q, loc[q].n>>
  BY DEF UserOK
<1> QED
  BY <1>1

\* Every step keeps what is known of the sites' users.
LEMMA StepUser ==
  ASSUME SitesInv, TurnInv, NEW p \in Callers, Step(p)
  PROVE  UserOK'
<1>0. Types /\ UserOK /\ CallerOK(p) /\ loc[p] \in Locals
  BY DEF SitesInv, TurnInv, Types
<1>1. ASSUME NEW q \in Callers, loc'[q].pc # "idle"
      PROVE  /\ user'[loc'[q].site] # NoUser
             /\ ~mixed'[loc'[q].site] => user'[loc'[q].site] = <<q, loc'[q].n>>
  <2>1. ASSUME loc[q].pc # "idle", loc'[q].site = loc[q].site, loc'[q].n = loc[q].n
        PROVE  /\ user'[loc'[q].site] # NoUser
               /\ ~mixed'[loc'[q].site] => user'[loc'[q].site] = <<q, loc'[q].n>>
    <3>1. loc[q].site \in Sites
      BY <2>1 DEF SitesInv, CallerOK
    <3>2. user[loc[q].site] # NoUser /\ (~mixed[loc[q].site] => user[loc[q].site] = <<q, loc[q].n>>)
      BY <1>0, <2>1 DEF UserOK
    <3>3. user'[loc[q].site] = user[loc[q].site] /\ (mixed[loc[q].site] => mixed'[loc[q].site])
      BY <3>1, <3>2, Elsewhere
    <3> QED
      BY <2>1, <3>2, <3>3
  <2>2. CASE q # p
    BY <1>1, <2>1, <2>2, LocTypes
  <2>3. CASE q = p /\ SameOffer(p)
    BY <1>1, <2>1, <2>3 DEF SameOffer
  <2>4. ASSUME NEW s \in Sites, NEW n \in Lens, Offer(p, s, n), q = p
        PROVE  /\ user'[loc'[q].site] # NoUser
               /\ ~mixed'[loc'[q].site] => user'[loc'[q].site] = <<q, loc'[q].n>>
    <3>1. loc'[q].site = s /\ loc'[q].n = n
      BY <1>0, <2>4 DEF Offer, Set, Types, Idle
    <3>2. user'[s] = IF user[s] = NoUser THEN <<p, n>> ELSE user[s]
      BY <1>0, <2>4 DEF Offer, Types
    <3>3. ~mixed'[s] => user[s] \in {NoUser, <<p, n>>}
      BY <1>0, <2>4 DEF Offer, Types
    <3>4. <<p, n>> # NoUser
      BY DEF NoUser
    <3> QED
      BY <2>4, <3>1, <3>2, <3>3, <3>4
  <2> QED
    BY <2>2, <2>3, <2>4, StepSame
<1>2. ASSUME NEW s \in Sites, up'[s] # 2
      PROVE  user'[s] # NoUser /\ HasEst(s)'
  <2>1. CASE up'[s] = up[s]
    BY <1>0, <1>2, <2>1, Elsewhere, KeysKept DEF UserOK
  <2>2. CASE up'[s] # up[s]
    <3>1. StoreT(p)
      <4>1. up' = up \/ StoreT(p)
        BY DEF Step, Offer, Find, LoadT, SeeProbe, TakeProbe, ReadSkip, DecSkip, DecSkipFails, RunUnmeasured,
         RunMeasured, RunUnwinds, Claim, ClaimCas, ReadOld, StoreSkip, StoreT, table, history
      <4> QED
        BY <2>2, <4>1
    <3>2. s = loc[p].site
      BY <2>2, Elsewhere
    <3>3. loc[p].pc = "t" /\ key[loc[p].at] = s /\ loc[p].at \in Entries /\ key' = key
      BY <1>0, <3>1, <3>2 DEF StoreT, CallerOK, Locals
    <3>4. t'[loc[p].at] = loc[p].ns + 1 /\ loc[p].ns + 1 # 0
      BY <1>0, <3>1, <3>3 DEF StoreT, Types, Locals
    <3>5. user[s] # NoUser
      BY <1>0, <3>2, <3>3 DEF UserOK
    <3> QED
      BY <3>3, <3>4, <3>5, Elsewhere DEF HasEst
  <2> QED
    BY <2>1, <2>2
<1> QED
  BY <1>1, <1>2 DEF UserOK

\* A search that ends without an entry is at a site without an estimate.
LEMMA WalkedAll ==
  ASSUME SitesInv, NEW p \in Callers, loc[p].pc \in {"find", "claim", "cas"},
         key[loc[p].at] # loc[p].site,
         key[loc[p].at] # NoSite => loc[p].tries + 1 = TableLen
  PROVE  \A i \in Entries : key[i] # loc[p].site
<1>0. Types /\ CallerOK(p) /\ loc[p] \in Locals /\ KeyOK
  BY DEF SitesInv, Types
<1>1. loc[p].site \in Sites /\ loc[p].tries \in Entries /\ Passed(loc[p].site, loc[p].tries)
      /\ loc[p].at = Path(loc[p].site, loc[p].tries)
  BY <1>0 DEF CallerOK, Locals
<1> QED
  BY <1>0, <1>1, NoEntry

\* What the offer at a site with one user does to TurnOK and RecordOK there.
Turned(p, s) ==
  /\ TurnOK(p)'
  /\ \A i \in Entries : key'[i] = s =>
       /\ up'[s] = 0 => Plan(loc[p].n, t'[i] - 1) < 2
       /\ up'[s] = 1 /\ loc'[p].pc \notin Running => skip'[i] = Probe

\* Every step of the only user does so.
LEMMA MoverTurns ==
  ASSUME SitesInv, TurnInv, NEW p \in Callers, Step(p), NEW s \in Sites, loc[p].pc # "idle",
         loc[p].site = s, ~mixed'[s]
  PROVE  Turned(p, s)
<1> DEFINE l == loc[p]
<1>0. Types /\ CallerOK(p) /\ l \in Locals /\ KeyOK /\ EstOK /\ l.at \in Entries /\ l.n \in Nat \ {0, 1}
      /\ up[s] \in 0..2 /\ s # NoSite
  BY ClockAssumption DEF SitesInv, Types, Locals
<1>1. ~mixed[s]
  BY Elsewhere
<1>2. user[s] = <<p, l.n>> /\ user[s][2] = l.n
  BY <1>1 DEF TurnInv, UserOK
<1>3. up[s] # 2 => HasEst(s)
  BY DEF TurnInv, UserOK
<1>4. /\ l.pc \in {"count", "dec"} => up[s] # 1
      /\ l.pc \in {"probe", "take", "count", "dec"} /\ up[s] = 0 => Plan(l.n, l.est) < 2
      /\ l.pc \in {"run", "claim", "cas", "old"} /\ l.workers >= 2 => up[s] = 2
      /\ l.pc = "run" /\ ~l.measure => up[s] # 1
      /\ l.pc \in {"skip", "t"} /\ up[s] = 0 /\ Plan(l.n, l.ns) >= 2 => l.k = Probe
      /\ l.pc = "t" => skip[l.at] = l.k
  BY <1>1 DEF TurnInv, TurnOK
<1>5. ~Busy(s) \/ l.pc \in Running
  <2>1. ASSUME NEW q \in Callers, loc[q].pc \in Running, loc[q].site = s
        PROVE  q = p
    BY <1>1, <2>1, OneUser DEF TurnInv, Running
  <2> QED
    BY <2>1 DEF Busy
<1>6. \A i \in Entries : key[i] = s =>
        /\ up[s] = 0 => Plan(l.n, t[i] - 1) < 2
        /\ up[s] = 1 /\ l.pc \notin Running => skip[i] = Probe
  BY <1>0, <1>1, <1>2, <1>5 DEF TurnInv, RecordOK
<1>a. \A x : Set(p, x) => loc'[p] = x
  BY <1>0 DEF Set, Types
<1>b. loc'[p] \in Locals
  BY LocTypes
<1>c. ASSUME NEW x \in Pcs, To(p, x)
      PROVE  /\ loc'[p].pc = x /\ loc'[p].site = s /\ loc'[p].at = l.at /\ loc'[p].n = l.n
             /\ loc'[p].k = l.k /\ loc'[p].est = l.est /\ loc'[p].workers = l.workers
             /\ loc'[p].ns = l.ns
  BY <1>0, <1>c DEF To, Set, Types, Locals
<1>d. ASSUME NEW w, NEW m, Planned(p, w, m)
      PROVE  /\ loc'[p].pc = "run" /\ loc'[p].site = s /\ loc'[p].workers = w /\ loc'[p].measure = m
  BY <1>0, <1>d DEF Planned, Set, Types, Locals
<1>e. ASSUME NEW w, NEW m, Planned(p, w, m), up'[s] # 2 => ~(w >= 2), up'[s] = 1 => m
      PROVE  TurnOK(p)'
  BY <1>d, <1>e DEF TurnOK
<1>f. ASSUME key' = key, t' = t, up' = up,
             up[s] = 1 => skip' = skip \/ loc'[p].pc \in Running,
             l.pc \in Running => loc'[p].pc \in Running \/ up[s] # 1
      PROVE  \A i \in Entries : key'[i] = s =>
               /\ up'[s] = 0 => Plan(l.n, t'[i] - 1) < 2
               /\ up'[s] = 1 /\ loc'[p].pc \notin Running => skip'[i] = Probe
  BY <1>6, <1>f
<1>g. ASSUME ~HasEst(s), up' = up
      PROVE  \A i \in Entries : key'[i] = s =>
               /\ up'[s] = 0 => Plan(l.n, t'[i] - 1) < 2
               /\ up'[s] = 1 /\ loc'[p].pc \notin Running => skip'[i] = Probe
  BY <1>3, <1>g
<1>h. ASSUME loc'[p].pc \in {"idle", "find", "load"}
      PROVE  TurnOK(p)'
  BY <1>h DEF TurnOK
<1>i. Set(p, Idle) => loc'[p].pc = "idle"
  BY <1>a DEF Idle
<1>j. ASSUME Set(p, [l EXCEPT !.at = Following(@), !.tries = @ + 1])
      PROVE  loc'[p].pc = l.pc /\ loc'[p].site = s /\ loc'[p].workers = l.workers
  BY <1>0, <1>j DEF Set, Types, Locals
<1>k. ASSUME PlanFirst(p), ~HasEst(s), up' = up
      PROVE  Turned(p, s)
  <2>1. up'[s] = 2
    BY <1>3, <1>k
  <2>2. TurnOK(p)'
    BY <1>e, <1>k, <2>1 DEF PlanFirst
  <2> QED
    BY <1>g, <1>k, <2>2 DEF Turned
<1>l. ASSUME NEW k, Decide(p, k), l.pc \in {"count", "dec"}, key' = key, t' = t, up' = up, skip' = skip
      PROVE  Turned(p, s)
  <2>1. CASE k \in {0, Probe}
    <3>1. Planned(p, Plan(l.n, l.est), TRUE)
      BY <1>l, <2>1 DEF Decide
    <3>2. up[s] # 2 => ~(Plan(l.n, l.est) >= 2)
      <4>1. Plan(l.n, l.est) \in Nat
        <5>1. loc'[p].workers = Plan(l.n, l.est)
          BY <1>d, <3>1
        <5>2. loc'[p].workers \in Nat
          BY <1>b, ClockAssumption DEF Locals
        <5> QED
          BY <5>1, <5>2
      <4> QED
        BY <1>0, <1>4, <1>l, <4>1
    <3>3. TurnOK(p)'
      BY <1>e, <1>l, <3>1, <3>2
    <3>4. loc'[p].pc = "run"
      BY <1>d, <3>1
    <3> QED
      BY <1>f, <1>l, <3>3, <3>4 DEF Turned, Running
  <2>2. CASE k \notin {0, Probe}
    <3>1. Set(p, [l EXCEPT !.pc = "dec", !.k = k])
      BY <1>l, <2>2 DEF Decide
    <3>2. loc'[p].pc = "dec" /\ loc'[p].site = s /\ loc'[p].n = l.n /\ loc'[p].est = l.est
      BY <1>0, <1>a, <3>1 DEF Locals
    <3>3. TurnOK(p)'
      BY <1>4, <1>l, <3>2 DEF TurnOK
    <3> QED
      BY <1>f, <1>l, <3>2, <3>3 DEF Turned, Running
  <2> QED
    BY <2>1, <2>2
<1>m. ASSUME l.pc \in {"claim", "cas"}, loc'[p].pc \in {"claim", "cas", "old"}, loc'[p].site = s,
             loc'[p].workers = l.workers, up' = up
      PROVE  TurnOK(p)'
  BY <1>4, <1>m DEF TurnOK
<1>21. ASSUME NEW r \in Sites, NEW n \in Lens, Offer(p, r, n)
       PROVE  Turned(p, s)
  BY <1>21 DEF Offer
<1>22. CASE Find(p)
  <2>0. l.pc = "find" /\ UNCHANGED <<key, t, skip, up>>
    BY <1>22 DEF Find, table, history
  <2>1. CASE key[l.at] = s
    <3>1. To(p, "load")
      BY <1>0, <1>22, <2>0, <2>1 DEF Find
    <3>2. loc'[p].pc = "load"
      BY <1>c, <3>1 DEF Pcs
    <3> QED
      BY <1>f, <1>h, <2>0, <3>2 DEF Turned, Running
  <2>2. CASE key[l.at] # s /\ (key[l.at] # NoSite => l.tries + 1 = TableLen)
    <3>1. PlanFirst(p)
      BY <1>22, <2>2 DEF Find, Onward
    <3>2. ~HasEst(s)
      BY <2>0, <2>2, WalkedAll DEF HasEst
    <3> QED
      BY <1>k, <2>0, <3>1, <3>2
  <2>3. CASE key[l.at] \notin {s, NoSite} /\ l.tries + 1 # TableLen
    <3>1. Set(p, [l EXCEPT !.at = Following(@), !.tries = @ + 1])
      BY <1>22, <2>3 DEF Find, Onward
    <3> QED
      BY <1>f, <1>h, <1>j, <2>0, <3>1 DEF Turned, Running
  <2> QED
    BY <2>1, <2>2, <2>3
<1>23. CASE LoadT(p)
  <2>0. l.pc = "load" /\ UNCHANGED <<key, t, skip, up>> /\ key[l.at] = s
    BY <1>0, <1>23 DEF LoadT, table, history, CallerOK
  <2>1. CASE t[l.at] = 0
    <3>1. ~HasEst(s)
      BY <1>23, <2>1, FirstIsFirst
    <3> QED
      BY <1>23, <1>k, <2>0, <2>1, <3>1 DEF LoadT
  <2>2. CASE t[l.at] # 0
    <3>1. Set(p, [l EXCEPT !.pc = "probe", !.est = t[l.at] - 1])
      BY <1>23, <2>2 DEF LoadT
    <3>2. loc'[p].pc = "probe" /\ loc'[p].site = s /\ loc'[p].n = l.n /\ loc'[p].est = t[l.at] - 1
      BY <1>0, <1>a, <3>1 DEF Locals
    <3>3. up[s] = 0 => Plan(l.n, t[l.at] - 1) < 2
      BY <1>0, <1>6, <2>0
    <3>4. TurnOK(p)'
      BY <2>0, <3>2, <3>3 DEF TurnOK
    <3> QED
      BY <1>f, <2>0, <3>2, <3>4 DEF Turned, Running
  <2> QED
    BY <2>1, <2>2
<1>24. CASE SeeProbe(p)
  <2>0. l.pc = "probe" /\ UNCHANGED <<key, t, skip, up>> /\ key[l.at] = s
    BY <1>0, <1>24 DEF SeeProbe, table, history, CallerOK
  <2>1. up[s] = 1 => skip[l.at] = Probe
    BY <1>0, <1>6, <2>0 DEF Running
  <2>2. loc'[p].pc = (IF skip[l.at] = Probe THEN "take" ELSE "count") /\ loc'[p].site = s
        /\ loc'[p].n = l.n /\ loc'[p].est = l.est
    BY <1>24, <1>c DEF SeeProbe, Pcs
  <2>3. TurnOK(p)'
    BY <1>4, <2>0, <2>1, <2>2 DEF TurnOK
  <2> QED
    BY <1>f, <2>0, <2>2, <2>3 DEF Turned, Running
<1>25. CASE TakeProbe(p)
  <2>0. l.pc = "take" /\ UNCHANGED <<key, t, up>> /\ key[l.at] = s
    BY <1>0, <1>25 DEF TakeProbe, CallerOK
  <2>1. up[s] = 1 => skip[l.at] = Probe
    BY <1>0, <1>6, <2>0 DEF Running
  <2>2. CASE skip[l.at] = Probe
    <3>1. Planned(p, 1, TRUE)
      BY <1>25, <2>2 DEF TakeProbe
    <3>2. up'[s] # 2 => ~(1 >= 2)
      OBVIOUS
    <3>3. TurnOK(p)'
      BY <1>e, <3>1, <3>2
    <3>4. loc'[p].pc = "run"
      BY <1>d, <3>1
    <3> QED
      BY <1>f, <2>0, <3>3, <3>4 DEF Turned, Running
  <2>3. CASE skip[l.at] # Probe
    <3>1. To(p, "count") /\ skip' = skip
      BY <1>25, <2>3 DEF TakeProbe
    <3>2. loc'[p].pc = "count" /\ loc'[p].site = s /\ loc'[p].n = l.n /\ loc'[p].est = l.est
      BY <1>c, <3>1 DEF Pcs
    <3>3. TurnOK(p)'
      BY <1>4, <2>0, <2>1, <2>3, <3>2 DEF TurnOK
    <3> QED
      BY <1>f, <2>0, <3>1, <3>2, <3>3 DEF Turned, Running
  <2> QED
    BY <2>2, <2>3
<1>26. CASE ReadSkip(p)
  BY <1>26, <1>l DEF ReadSkip, table, history
<1>27. CASE DecSkip(p)
  <2>0. l.pc = "dec" /\ UNCHANGED <<key, t, up>> /\ Planned(p, Plan(l.n, l.est), FALSE)
    BY <1>27 DEF DecSkip
  <2>1. Plan(l.n, l.est) \in Nat
    <3>1. loc'[p].workers = Plan(l.n, l.est)
      BY <1>d, <2>0
    <3>2. loc'[p].workers \in Nat
      BY <1>b, ClockAssumption DEF Locals
    <3> QED
      BY <3>1, <3>2
  <2>2. (up[s] # 2 => ~(Plan(l.n, l.est) >= 2)) /\ up[s] # 1
    BY <1>0, <1>4, <2>0, <2>1
  <2>3. TurnOK(p)' /\ loc'[p].pc = "run"
    BY <1>d, <1>e, <2>0, <2>2
  <2> QED
    BY <1>f, <2>0, <2>3 DEF Turned, Running
<1>28. CASE DecSkipFails(p)
  BY <1>28, <1>l DEF DecSkipFails, table, history
<1>29. CASE RunUnmeasured(p)
  <2>0. l.pc = "run" /\ UNCHANGED <<key, t, skip, up>> /\ up[s] # 1 /\ loc'[p].pc = "idle"
    BY <1>29, <1>4, <1>i DEF RunUnmeasured, table, history
  <2> QED
    BY <1>f, <1>h, <2>0 DEF Turned
<1>30. ASSUME NEW ns \in Times, RunMeasured(p, ns)
       PROVE  Turned(p, s)
  <2>0. l.pc = "run" /\ UNCHANGED <<key, t, skip, up>>
    BY <1>30 DEF RunMeasured, table, history
  <2>1. loc'[p].pc = "claim" /\ loc'[p].site = s /\ loc'[p].workers = l.workers
    BY <1>0, <1>30 DEF RunMeasured, Set, Types, Locals
  <2>2. TurnOK(p)'
    BY <1>4, <2>0, <2>1 DEF TurnOK
  <2> QED
    BY <1>f, <2>0, <2>1, <2>2 DEF Turned, Running
<1>31. CASE RunUnwinds(p)
  BY <1>0, <1>31 DEF RunUnwinds, Types
<1>32. CASE Claim(p)
  <2>0. l.pc = "claim" /\ UNCHANGED <<key, t, skip, up>>
    BY <1>32 DEF Claim, table, history
  <2>1. CASE key[l.at] # s /\ key[l.at] # NoSite /\ l.tries + 1 = TableLen
    <3>1. loc'[p].pc = "idle"
      BY <1>32, <1>i, <2>1 DEF Claim, Onward
    <3>2. ~HasEst(s)
      BY <2>0, <2>1, WalkedAll DEF HasEst
    <3> QED
      BY <1>g, <1>h, <2>0, <3>1, <3>2 DEF Turned
  <2>2. CASE ~(key[l.at] # s /\ key[l.at] # NoSite /\ l.tries + 1 = TableLen)
    <3>1. loc'[p].pc \in {"claim", "cas", "old"} /\ loc'[p].site = s /\ loc'[p].workers = l.workers
      BY <1>32, <1>c, <1>j, <2>0, <2>2 DEF Claim, Onward, Pcs
    <3> QED
      BY <1>f, <1>m, <2>0, <3>1 DEF Turned, Running
  <2> QED
    BY <2>1, <2>2
<1>33. CASE ClaimCas(p)
  <2>0. l.pc = "cas" /\ UNCHANGED <<t, skip, up>>
    BY <1>33 DEF ClaimCas, history
  <2>1. CASE key[l.at] # s /\ key[l.at] # NoSite /\ l.tries + 1 = TableLen
    <3>1. loc'[p].pc = "idle"
      BY <1>33, <1>i, <2>1 DEF ClaimCas, Onward
    <3>2. ~HasEst(s)
      BY <2>0, <2>1, WalkedAll DEF HasEst
    <3> QED
      BY <1>g, <1>h, <2>0, <3>1, <3>2 DEF Turned
  <2>2. CASE ~(key[l.at] # s /\ key[l.at] # NoSite /\ l.tries + 1 = TableLen)
    <3>1. loc'[p].pc \in {"cas", "old"} /\ loc'[p].site = s /\ loc'[p].workers = l.workers
      BY <1>33, <1>c, <1>j, <2>0, <2>2 DEF ClaimCas, Onward, Pcs
    <3>2. TurnOK(p)'
      BY <1>m, <2>0, <3>1
    <3>3. CASE key[l.at] = NoSite
      <4>1. ~HasEst(s)
        BY <1>0, <2>0, <3>3, WalkedAll DEF HasEst
      <4> QED
        BY <1>g, <2>0, <3>2, <4>1 DEF Turned
    <3>4. CASE key[l.at] # NoSite
      <4>1. key' = key
        BY <1>33, <3>4 DEF ClaimCas
      <4> QED
        BY <1>f, <2>0, <3>1, <3>2, <4>1 DEF Turned, Running
    <3> QED
      BY <3>3, <3>4
  <2> QED
    BY <2>1, <2>2
<1>34. CASE ReadOld(p)
  <2> DEFINE k == NewSkip(l.n, l.ns, l.workers >= 2, l.warm, t[l.at])
  <2>0. l.pc = "old" /\ UNCHANGED <<key, t, skip, up>> /\ key[l.at] = s
    BY <1>0, <1>34 DEF ReadOld, table, history, CallerOK
  <2>1. loc'[p].pc = "skip" /\ loc'[p].site = s /\ loc'[p].n = l.n /\ loc'[p].ns = l.ns
        /\ loc'[p].k = k
    BY <1>0, <1>34 DEF ReadOld, Set, Types, Locals
  <2>2. ASSUME up[s] = 0, Plan(l.n, l.ns) >= 2
        PROVE  k = Probe
    <3>1. ~(l.workers >= 2)
      BY <1>4, <2>0, <2>2
    <3>2. t[l.at] # 0
      BY <1>0, <1>3, <2>0, <2>2, OneEntry DEF HasEst
    <3>3. Plan(l.n, t[l.at] - 1) < 2
      BY <1>0, <1>6, <2>0, <2>2
    <3>4. ~(Plan(l.n, l.ns) < 2)
      <4>1. Plan(l.n, l.ns) \in 1..Workers(l.n)
        BY <1>0, PlanIsBest DEF Locals
      <4> QED
        BY <2>2, <4>1
    <3> QED
      BY <3>1, <3>2, <3>3, <3>4 DEF NewSkip
  <2>3. TurnOK(p)'
    <3> HIDE DEF k
    <3> QED
      BY <2>0, <2>1, <2>2 DEF TurnOK
  <2> QED
    BY <1>f, <2>0, <2>1, <2>3 DEF Turned, Running
<1>35. CASE StoreSkip(p)
  <2>0. l.pc = "skip" /\ UNCHANGED <<key, t, up>> /\ To(p, "t")
    BY <1>35 DEF StoreSkip
  <2>1. loc'[p].pc = "t" /\ loc'[p].site = s /\ loc'[p].n = l.n /\ loc'[p].ns = l.ns
        /\ loc'[p].k = l.k /\ loc'[p].at = l.at
    BY <1>c, <2>0 DEF Pcs
  <2>2. skip'[l.at] = l.k
    BY <1>0, <1>35 DEF StoreSkip, Types
  <2>3. TurnOK(p)'
    BY <1>4, <2>0, <2>1, <2>2 DEF TurnOK
  <2> QED
    BY <1>f, <2>0, <2>1, <2>3 DEF Turned, Running
<1>36. CASE StoreT(p)
  <2>0. l.pc = "t" /\ key' = key /\ skip' = skip /\ key[l.at] = s /\ loc'[p].pc = "idle"
    BY <1>0, <1>36, <1>i DEF StoreT, CallerOK
  <2>1. t'[l.at] = l.ns + 1 /\ l.ns \in Nat
    BY <1>0, <1>36 DEF StoreT, Types, Locals
  <2>2. up'[s] = IF Plan(l.n, l.ns) < 2 THEN 0 ELSE IF up[s] = 2 THEN 2 ELSE up[s] + 1
    BY <1>0, <1>36 DEF StoreT, Types
  <2>3. \A i \in Entries : key'[i] = s => i = l.at
    BY <1>0, <2>0, OneEntry
  <2>4. up'[s] = 0 => Plan(l.n, t'[l.at] - 1) < 2
    BY <1>0, <2>1, <2>2
  <2>5. up'[s] = 1 => skip'[l.at] = Probe
    <3>1. Plan(l.n, l.ns) \in 1..Workers(l.n)
      BY <1>0, <2>1, PlanIsBest
    <3>2. up'[s] = 1 => up[s] = 0 /\ Plan(l.n, l.ns) >= 2
      BY <1>0, <2>2, <3>1
    <3> QED
      BY <1>4, <2>0, <3>2
  <2> QED
    BY <1>h, <2>0, <2>3, <2>4, <2>5 DEF Turned
<1> QED
  BY <1>21, <1>22, <1>23, <1>24, <1>25, <1>26, <1>27, <1>28, <1>29, <1>30, <1>31, <1>32, <1>33,
     <1>34, <1>35, <1>36 DEF Step

\* What a step of p leaves of the entries of the sites p is not at.
LEMMA EntriesElsewhere ==
  ASSUME SitesInv, NEW p \in Callers, Step(p), NEW s \in Sites,
         loc[p].pc = "idle" \/ loc[p].site # s
  PROVE  /\ up'[s] = up[s]
         /\ \A i \in Entries : key[i] = s => skip'[i] = skip[i] /\ t'[i] = t[i]
         /\ \A i \in Entries : key'[i] = s => key[i] = s
<1>0. Types /\ CallerOK(p) /\ loc[p] \in Locals /\ s # NoSite
  BY ClockAssumption DEF SitesInv, Types
<1>1. CASE loc[p].pc \notin {"take", "dec", "skip", "t"}
  <2>1. UNCHANGED <<skip, t, up>>
    BY <1>1, Elsewhere
  <2>2. key' = key \/ (Claims(p) /\ loc[p].site # s)
    BY StepKeys DEF KeyStep, Claims
  <2>3. \A i \in Entries : key'[i] = s => key[i] = s
    BY <1>0, <2>2 DEF Claims, Types
  <2> QED
    BY <2>1, <2>3
<1>2. CASE loc[p].pc \in {"take", "dec", "skip", "t"}
  <2>1. key[loc[p].at] = loc[p].site /\ loc[p].site # s
    BY <1>0, <1>2 DEF CallerOK
  <2>2. key' = key
    BY <1>2, StepKeys DEF KeyStep, Claims
  <2> QED
    BY <2>1, <2>2, Elsewhere
<1> QED
  BY <1>1, <1>2

\* Every step keeps what is known of the users.
LEMMA TurnsKept ==
  ASSUME SitesInv, TurnInv, NEW p \in Callers, Step(p), NEW q \in Callers
  PROVE  TurnOK(q)'
<1>0. Types /\ UserOK /\ CallerOK(q) /\ TurnOK(q) /\ loc[q] \in Locals
  BY DEF SitesInv, TurnInv, Types
<1>1. SUFFICES ASSUME loc'[q].pc # "idle", ~mixed'[loc'[q].site]
               PROVE  TurnOK(q)'
  BY DEF TurnOK
<1>2. CASE q = p /\ loc[p].pc # "idle"
  <2>1. PICK s \in Sites : s = loc[p].site
    BY <1>0, <1>2 DEF CallerOK
  <2>2. SameOffer(p)
    BY <1>2, StepSame DEF Offer
  <2>3. ~mixed'[s]
    BY <1>1, <1>2, <2>1, <2>2 DEF SameOffer
  <2> QED
    BY <1>2, <2>1, <2>3, MoverTurns DEF Turned
<1>3. CASE q = p /\ loc[p].pc = "idle"
  <2>1. PICK s \in Sites, n \in Lens : Offer(p, s, n)
    BY <1>3, StepSame DEF SameOffer
  <2>2. loc'[p].pc = "find"
    BY <1>0, <1>3, <2>1 DEF Offer, Set, Types, Idle
  <2> QED
    BY <1>3, <2>2 DEF TurnOK
<1>4. CASE q # p
  <2>1. loc'[q] = loc[q]
    BY <1>4, LocTypes
  <2>2. PICK s \in Sites : s = loc[q].site
    BY <1>0, <1>1, <2>1 DEF CallerOK
  <2>3. ~mixed[s]
    BY <1>1, <2>1, <2>2, Elsewhere
  <2>4. loc[p].pc = "idle" \/ loc[p].site # s
    BY <1>0, <1>1, <1>4, <2>1, <2>2, <2>3, OneUser
  <2>5. up'[s] = up[s] /\ \A i \in Entries : key[i] = s => skip'[i] = skip[i]
    BY <2>4, EntriesElsewhere
  <2>6. loc[q].pc = "t" => skip'[loc[q].at] = skip[loc[q].at]
    BY <1>0, <2>2, <2>5 DEF CallerOK, Locals
  <2> QED
    BY <1>0, <2>1, <2>2, <2>3, <2>5, <2>6 DEF TurnOK
<1> QED
  BY <1>2, <1>3, <1>4

\* Every step keeps what the entries show.
LEMMA StepRecords ==
  ASSUME SitesInv, TurnInv, NEW p \in Callers, Step(p)
  PROVE  RecordOK'
<1>0. Types /\ UserOK /\ RecordOK /\ CallerOK(p) /\ Types'
  BY StepTypes DEF SitesInv, TurnInv, Types
<1>1. SUFFICES ASSUME NEW i \in Entries, NEW s \in Sites, key'[i] = s, ~mixed'[s]
               PROVE  /\ up'[s] = 0 => Plan(user'[s][2], t'[i] - 1) < 2
                      /\ up'[s] = 1 /\ ~Busy(s)' => skip'[i] = Probe
  BY <1>0 DEF RecordOK, Types, Busy
<1>2. ~mixed[s]
  BY <1>1, Elsewhere
<1>3. CASE loc[p].pc # "idle" /\ loc[p].site = s
  <2>1. Turned(p, s)
    BY <1>1, <1>3, MoverTurns
  <2>2. user[s] = <<p, loc[p].n>> /\ user[s] # NoUser
    BY <1>0, <1>2, <1>3 DEF UserOK
  <2>5. user'[s] = user[s]
    BY <2>2, Elsewhere
  <2>6. user[s][2] = loc[p].n
    BY <2>2
  <2>3. user'[s][2] = loc[p].n
    BY <2>5, <2>6
  <2>4. loc'[p].pc \in Running => Busy(s)'
    <3>1. SameOffer(p)
      BY <1>3, StepSame DEF Offer
    <3> QED
      BY <1>3, <3>1 DEF SameOffer, Busy, Running
  <2> QED
    BY <1>1, <2>1, <2>3, <2>4 DEF Turned
<1>4. CASE loc[p].pc = "idle" \/ loc[p].site # s
  <2>1. up'[s] = up[s] /\ key[i] = s /\ skip'[i] = skip[i] /\ t'[i] = t[i]
    BY <1>1, <1>4, EntriesElsewhere
  <2>2. up[s] # 2 => user'[s] = user[s]
    BY <1>0, Elsewhere DEF UserOK
  <2>3. Busy(s) => Busy(s)'
    <3>1. SUFFICES ASSUME NEW q \in Callers, loc[q].pc \in Running, loc[q].site = s
                   PROVE  Busy(s)'
      BY DEF Busy
    <3>2. q # p
      BY <1>4, <3>1 DEF Running
    <3> QED
      BY <3>1, <3>2, LocTypes DEF Busy
  <2>4. /\ up[s] = 0 => Plan(user[s][2], t[i] - 1) < 2
        /\ up[s] = 1 /\ ~Busy(s) => skip[i] = Probe
    BY <1>0, <1>2, <2>1, ClockAssumption DEF RecordOK
  <2> QED
    BY <2>1, <2>2, <2>3, <2>4
<1> QED
  BY <1>3, <1>4

\* Every step keeps TurnInv.
LEMMA NextTurn ==
  ASSUME SitesInv, TurnInv, [Next]_vars
  PROVE  TurnInv'
<1>1. ASSUME NEW p \in Callers, Step(p)
      PROVE  TurnInv'
  BY <1>1, StepUser, StepRecords, TurnsKept DEF TurnInv
<1>2. CASE UNCHANGED vars
  BY <1>2 DEF vars, table, history, TurnInv, UserOK, RecordOK, TurnOK, Busy, HasEst
<1> QED
  BY <1>1, <1>2 DEF Next, Step

\* No site starts below the crossover.
LEMMA InitTurn ==
  ASSUME Init
  PROVE  TurnInv
<1> QED
  BY DEF Init, TurnInv, UserOK, RecordOK, TurnOK, Idle

\* TurnInv holds in every reachable state: at a site with one user and no
\* unwinding, the last record below the crossover is still the estimate, or the
\* one above it asks for a probe that its user takes next.
THEOREM TurnInvariant == Spec => [](SitesInv /\ TurnInv)
<1> QED
  BY InitSites, InitTurn, NextSites, NextTurn, PTL DEF Spec

\* A sequential site turns parallel only on two measurements in a row above the
\* crossover, as long as one thread offers lists of one length at it and nothing
\* unwinds.
THEOREM SwitchTakesTwo == Spec => []TwoInARow
<1>1. ASSUME SitesInv, TurnInv
      PROVE  TwoInARow
  BY <1>1 DEF TurnInv, TurnOK, TwoInARow
<1> QED
  BY <1>1, TurnInvariant, PTL
=============================================================================
