------------------------------ MODULE FanClock -------------------------------
(***************************************************************************)
(* The fan cost model of runtime/rs/src/list.rs: the table of sites read   *)
(* and claimed without a lock, the plan made from a site's last            *)
(* measurement, the count of offers that may go unmeasured, and the probe. *)
(* Every load, store and compare-exchange of a shared word is one action;  *)
(* how the planned offer runs is FanGate's, here it is one step that       *)
(* yields a measurement.  Loads read the last value stored: a Relaxed load *)
(* of `skip` that reads an older one fails its compare-exchange, or only   *)
(* has one more offer measured.  ALMIDE_FAN_COST_OFF is left out.          *)
(***************************************************************************)
EXTENDS Integers, FiniteSets

CONSTANTS Callers,      \* threads that make offers
          Sites,        \* addresses of the parallel twins
          NoSite,       \* key 0: an entry nobody has claimed
          TableLen,     \* length of ALMIDE_FAN_SITES (256 in the code)
          Cores,        \* almide_rt_list_par_workers(usize::MAX)
          PerWorker,    \* blocks per worker of almide_fan_block (4)
          OfferNs,      \* ALMIDE_FAN_OFFER_NS
          WorkerNs,     \* ALMIDE_FAN_WORKER_NS
          Resample,     \* ALMIDE_FAN_RESAMPLE
          ResamplePar,  \* ALMIDE_FAN_RESAMPLE_PAR
          Probe,        \* ALMIDE_FAN_PROBE, the largest value of `skip`
          Lens,         \* lengths of the lists offered
          Times,        \* what an element may be measured to take
          MaxOffers,    \* bound on the offers made
          MayPanic      \* whether an element may unwind

ASSUME ClockAssumption ==
  /\ IsFiniteSet(Callers) /\ IsFiniteSet(Sites) /\ NoSite \notin Sites
  /\ {TableLen, Cores, PerWorker, Resample, ResamplePar} \subseteq Nat \ {0}
  /\ {OfferNs, WorkerNs, MaxOffers} \subseteq Nat
  /\ Probe \in Nat /\ Probe > Resample /\ Probe > ResamplePar
  /\ Lens \subseteq Nat \ {0, 1} /\ Times \subseteq Nat
  /\ MayPanic \in BOOLEAN

Entries == 0..(TableLen - 1)
Unknown == -1   \* the site has no estimate yet
-----------------------------------------------------------------------------
(* The plan *)

DivCeil(a, b) == (a + b - 1) \div b
Workers(n) == IF Cores < n THEN Cores ELSE n

\* Saving less cost of n elements of t ns on w workers.
Net(n, t, w) == t * (n - DivCeil(n, w)) - (OfferNs + WorkerNs * w)

Better(n, t, w, b) == Net(n, t, w) > 0 /\ Net(n, t, w) > b.net

\* almide_rt_fan_plan of a known time: the loop over the worker counts.
Plan(n, t) ==
  LET best[w \in 1..Workers(n)] ==
        IF w = 1 THEN [workers |-> 1, net |-> 0]
        ELSE IF Better(n, t, w, best[w - 1])
        THEN [workers |-> w, net |-> Net(n, t, w)]
        ELSE best[w - 1]
  IN  best[Workers(n)].workers

\* NewSkip without the second measurement of a site that was sequential.
NewSkipAtOnce(n, ns, parallel, warm, old) ==
  IF Plan(n, ns) < 2 THEN Resample - 1
  ELSE IF parallel /\ (~warm \/ Plan(n, ns \div 2) < 2) THEN Probe
  ELSE ResamplePar - 1

\* How many offers the site may make unmeasured after a record of ns, or
\* Probe.  old is the entry's t, one above the time, 0 if never measured.
NewSkip(n, ns, parallel, warm, old) ==
  LET wasSequential == old # 0 /\ Plan(n, old - 1) < 2
      weak == IF parallel THEN ~warm \/ Plan(n, ns \div 2) < 2 ELSE wasSequential
  IN  IF Plan(n, ns) < 2 THEN Resample - 1
      ELSE IF weak THEN Probe
      ELSE ResamplePar - 1

\* Whether a block had an element after its first.  Every block's first
\* element is a warm-up; a search may stop at it.
WarmOutcomes(n, w) ==
  IF w < 2 THEN {TRUE}
  ELSE IF DivCeil(n, w * PerWorker) <= 1 THEN {FALSE}
  ELSE BOOLEAN
-----------------------------------------------------------------------------
VARIABLES
  home,      \* the entry a site's address hashes to
  key, t, skip,   \* ALMIDE_FAN_SITES
  loc,       \* caller p's locals
  made,      \* offers made so far
  \* history
  from,      \* the site whose record stored an entry's t
  put,       \* the last value stored in an entry's skip by a record
  passed,    \* the offers that took one from it since
  known,     \* the site had an estimate when p's offer began
  user,      \* the first offer at a site: its caller and length
  mixed,     \* other callers or lengths offered there too, or one unwound
  up         \* records above the crossover since the last below (2: or more)

table == <<key, t, skip>>
history == <<from, put, passed, known, user, mixed, up>>
vars == <<home, table, loc, made, history>>

Idle == [pc |-> "idle", site |-> NoSite, n |-> 2, at |-> 0, tries |-> 0,
         est |-> Unknown, k |-> 0, workers |-> 1, measure |-> FALSE,
         ns |-> 0, warm |-> FALSE]
NoUser == <<>>

Init ==
  /\ home \in [Sites -> Entries]
  /\ key = [i \in Entries |-> NoSite]
  /\ t = [i \in Entries |-> 0]
  /\ skip = [i \in Entries |-> 0]
  /\ loc = [p \in Callers |-> Idle]
  /\ made = 0
  /\ from = [i \in Entries |-> NoSite]
  /\ put = [i \in Entries |-> 0]
  /\ passed = [i \in Entries |-> 0]
  /\ known = [p \in Callers |-> FALSE]
  /\ user = [s \in Sites |-> NoUser]
  /\ mixed = [s \in Sites |-> FALSE]
  /\ up = [s \in Sites |-> 2]

Set(p, l) == loc' = [loc EXCEPT ![p] = l]
To(p, pc) == Set(p, [loc[p] EXCEPT !.pc = pc])
\* The offer is planned; locals that are dead from here on are cleared.
Planned(p, w, m) ==
  Set(p, [loc[p] EXCEPT !.pc = "run", !.workers = w, !.measure = m, !.k = 0,
                      !.at = 0, !.tries = 0])
-----------------------------------------------------------------------------
(* AlmideFanClock::offer *)

Offer(p, s, n) ==
  /\ loc[p].pc = "idle" /\ made < MaxOffers
  /\ made' = made + 1
  /\ Set(p, [Idle EXCEPT !.pc = "find", !.site = s, !.n = n, !.at = home[s]])
  /\ known' = [known EXCEPT ![p] = \E i \in Entries : key[i] = s /\ t[i] # 0]
  /\ user' = [user EXCEPT ![s] = IF @ = NoUser THEN <<p, n>> ELSE @]
  /\ mixed' = [mixed EXCEPT ![s] = @ \/ user[s] \notin {NoUser, <<p, n>>}]
  /\ UNCHANGED <<home, table, from, put, passed, up>>

\* The site has no history: every core is offered a part.
PlanFirst(p) == Planned(p, Workers(loc[p].n), TRUE)

Following(i) == (i + 1) % TableLen

\* One more entry looked at, or all of them.
Onward(p, full) ==
  IF loc[p].tries + 1 = TableLen THEN full
  ELSE Set(p, [loc[p] EXCEPT !.at = Following(@), !.tries = @ + 1])

\* almide_fan_site(site, false): one load of a key.
Find(p) ==
  LET here == key[loc[p].at] IN
  /\ loc[p].pc = "find"
  /\ \/ here = loc[p].site /\ To(p, "load")
     \/ here = NoSite /\ PlanFirst(p)
     \/ here \notin {loc[p].site, NoSite} /\ Onward(p, PlanFirst(p))
  /\ UNCHANGED <<home, table, made, history>>

LoadT(p) ==
  LET e == t[loc[p].at] IN
  /\ loc[p].pc = "load"
  /\ IF e = 0 THEN PlanFirst(p)
     ELSE Set(p, [loc[p] EXCEPT !.pc = "probe", !.est = e - 1])
  /\ UNCHANGED <<home, table, made, history>>

\* The guard's first half: is a probe asked for?
SeeProbe(p) ==
  /\ loc[p].pc = "probe"
  /\ To(p, IF skip[loc[p].at] = Probe THEN "take" ELSE "count")
  /\ UNCHANGED <<home, table, made, history>>

\* Variant: the probe is taken with a store.
TakeProbeStored(p) ==
  LET i == loc[p].at IN
  /\ loc[p].pc = "take"
  /\ skip' = [skip EXCEPT ![i] = 0]
  /\ passed' = [passed EXCEPT ![i] = @ + 1]
  /\ Planned(p, 1, TRUE)
  /\ UNCHANGED <<home, key, t, made, from, put, known, user, mixed, up>>

\* The second half: one caller takes it.
TakeProbe(p) ==
  LET i == loc[p].at IN
  /\ loc[p].pc = "take"
  /\ IF skip[i] = Probe
     THEN /\ skip' = [skip EXCEPT ![i] = 0]
          /\ passed' = [passed EXCEPT ![i] = @ + 1]
          /\ Planned(p, 1, TRUE)
     ELSE To(p, "count") /\ UNCHANGED <<skip, passed>>
  /\ UNCHANGED <<home, key, t, made, from, put, known, user, mixed, up>>

\* The head of the CAS loop, with the value k just read.
Decide(p, k) ==
  IF k \in {0, Probe} THEN Planned(p, Plan(loc[p].n, loc[p].est), TRUE)
  ELSE Set(p, [loc[p] EXCEPT !.pc = "dec", !.k = k])

ReadSkip(p) ==
  /\ loc[p].pc = "count"
  /\ Decide(p, skip[loc[p].at])
  /\ UNCHANGED <<home, table, made, history>>

\* Variant: the decrement is a load and a store.
DecSkipLost(p) ==
  LET i == loc[p].at IN
  /\ loc[p].pc = "dec"
  /\ skip' = [skip EXCEPT ![i] = loc[p].k - 1]
  /\ passed' = [passed EXCEPT ![i] = @ + 1]
  /\ Planned(p, Plan(loc[p].n, loc[p].est), FALSE)
  /\ UNCHANGED <<home, key, t, made, from, put, known, user, mixed, up>>

DecSkip(p) ==
  LET i == loc[p].at IN
  /\ loc[p].pc = "dec" /\ skip[i] = loc[p].k
  /\ skip' = [skip EXCEPT ![i] = loc[p].k - 1]
  /\ passed' = [passed EXCEPT ![i] = @ + 1]
  /\ Planned(p, Plan(loc[p].n, loc[p].est), FALSE)
  /\ UNCHANGED <<home, key, t, made, from, put, known, user, mixed, up>>

\* The exchange failed, for no reason perhaps (compare_exchange_weak).
DecSkipFails(p) ==
  /\ loc[p].pc = "dec"
  /\ Decide(p, skip[loc[p].at])
  /\ UNCHANGED <<home, table, made, history>>
-----------------------------------------------------------------------------
(* The offer runs, then AlmideFanClock::record *)

RunUnmeasured(p) ==
  /\ loc[p].pc = "run" /\ ~loc[p].measure
  /\ Set(p, Idle)
  /\ UNCHANGED <<home, table, made, history>>

\* The offer runs and its elements took ns each.
RunMeasured(p, ns) ==
  LET l == loc[p] IN
  /\ l.pc = "run" /\ l.measure
  /\ \E w \in WarmOutcomes(l.n, l.workers) :
       Set(p, [l EXCEPT !.pc = "claim", !.at = home[l.site], !.tries = 0,
                        !.est = Unknown, !.k = 0, !.ns = ns, !.warm = w])
  /\ UNCHANGED <<home, table, made, history>>

\* An element unwinds through the offer: nothing is recorded.
RunUnwinds(p) ==
  /\ MayPanic
  /\ loc[p].pc = "run"
  /\ Set(p, Idle)
  /\ mixed' = [mixed EXCEPT ![loc[p].site] = TRUE]
  /\ UNCHANGED <<home, table, made, from, put, passed, known, user, up>>

\* almide_fan_site(site, true): one load of a key.  A full table keeps
\* nothing.
Claim(p) ==
  LET here == key[loc[p].at] IN
  /\ loc[p].pc = "claim"
  /\ \/ here = loc[p].site /\ To(p, "old")
     \/ here = NoSite /\ To(p, "cas")
     \/ here \notin {loc[p].site, NoSite} /\ Onward(p, Set(p, Idle))
  /\ UNCHANGED <<home, table, made, history>>

\* Variant: an entry that was empty is claimed with a store.
ClaimCasStored(p) ==
  LET i == loc[p].at IN
  /\ loc[p].pc = "cas"
  /\ key' = [key EXCEPT ![i] = loc[p].site]
  /\ To(p, "old")
  /\ UNCHANGED <<home, t, skip, made, history>>

ClaimCas(p) ==
  LET i == loc[p].at IN
  /\ loc[p].pc = "cas"
  /\ \/ key[i] = NoSite /\ key' = [key EXCEPT ![i] = loc[p].site] /\ To(p, "old")
     \/ key[i] = loc[p].site /\ To(p, "old") /\ UNCHANGED key
     \/ key[i] \notin {NoSite, loc[p].site}
        /\ Onward(p, Set(p, Idle)) /\ UNCHANGED key
  /\ UNCHANGED <<home, t, skip, made, history>>

\* The estimate before, and what follows from it.
ReadOld(p) ==
  LET l == loc[p] IN
  /\ l.pc = "old"
  /\ Set(p, [l EXCEPT !.pc = "skip", !.workers = 1, !.warm = FALSE, !.measure = FALSE,
               !.k = NewSkip(l.n, l.ns, l.workers >= 2, l.warm, t[l.at])])
  /\ UNCHANGED <<home, table, made, history>>

StoreSkip(p) ==
  LET i == loc[p].at IN
  /\ loc[p].pc = "skip"
  /\ skip' = [skip EXCEPT ![i] = loc[p].k]
  /\ To(p, "t")
  /\ put' = [put EXCEPT ![i] = loc[p].k]
  /\ passed' = [passed EXCEPT ![i] = 0]
  /\ UNCHANGED <<home, key, t, made, from, known, user, mixed, up>>

StoreT(p) ==
  LET l == loc[p] IN
  /\ l.pc = "t"
  /\ t' = [t EXCEPT ![l.at] = l.ns + 1]
  /\ from' = [from EXCEPT ![l.at] = l.site]
  /\ Set(p, Idle)
  /\ up' = [up EXCEPT ![l.site] = IF Plan(l.n, l.ns) < 2 THEN 0
                                  ELSE IF @ = 2 THEN 2 ELSE @ + 1]
  /\ UNCHANGED <<home, key, skip, made, put, passed, known, user, mixed>>
-----------------------------------------------------------------------------
Next ==
  \E p \in Callers :
    \/ \E s \in Sites, n \in Lens : Offer(p, s, n)
    \/ Find(p) \/ LoadT(p) \/ SeeProbe(p) \/ TakeProbe(p)
    \/ ReadSkip(p) \/ DecSkip(p) \/ DecSkipFails(p)
    \/ RunUnmeasured(p) \/ (\E ns \in Times : RunMeasured(p, ns)) \/ RunUnwinds(p)
    \/ Claim(p) \/ ClaimCas(p) \/ ReadOld(p) \/ StoreSkip(p) \/ StoreT(p)

Spec == Init /\ [][Next]_vars
-----------------------------------------------------------------------------
(* Properties *)

\* The words of the table and the locals have their types; an index stays in
\* the table.
TypeOK ==
  /\ home \in [Sites -> Entries]
  /\ key \in [Entries -> Sites \cup {NoSite}]
  /\ t \in [Entries -> Nat]
  /\ skip \in [Entries -> 0..Probe]
  /\ made \in 0..MaxOffers
  /\ \A p \in Callers :
       /\ loc[p].at \in Entries /\ loc[p].tries \in Entries
       /\ loc[p].k \in 0..Probe /\ loc[p].workers \in 1..Cores
       /\ loc[p].site \in Sites \cup {NoSite}

\* almide_fan_site claims and finds entries without a lock: whatever the
\* order, the estimate in a site's entry was measured at that site, no site has
\* two entries (a second one would hide the first's estimate), and an offer
\* that plans as a site's first began when the site had no estimate.  With
\* it, the types.
SitesKept ==
  /\ TypeOK
  /\ \A i \in Entries : t[i] # 0 => from[i] = key[i]
  /\ \A i, j \in Entries : key[i] = key[j] /\ key[i] # NoSite => i = j
  /\ \A p \in Callers : loc[p].pc = "run" /\ loc[p].est = Unknown => ~known[p]

\* A record that lets k offers go unmeasured lets through exactly k of them,
\* and one that asks for a probe gets exactly one, whatever callers race for
\* them: 0 is never decremented into Probe, no decrement is lost.
SkipExact ==
  \A i \in Entries :
    IF put[i] = Probe
    THEN <<passed[i], skip[i]>> \in {<<0, Probe>>, <<1, 0>>}
    ELSE skip[i] = put[i] - passed[i]

\* "a sequential site turns parallel on two measurements in a row, not on
\* one": true of a site that one thread offers lists of one length at and
\* whose elements do not unwind, whatever other sites share its table.
TwoInARow ==
  \A p \in Callers :
    LET l == loc[p] IN
    l.pc = "run" /\ l.est # Unknown /\ l.workers >= 2 /\ ~mixed[l.site] =>
      up[l.site] = 2
=============================================================================
