---------------------------- MODULE FanNestProofs ----------------------------
(***************************************************************************)
(* Theorems about FanNest, for every tree of offers, every number of       *)
(* blocks and every number of threads: a gate's parent is still there      *)
(* while the gate can be read, the thread-locals are those of the block a  *)
(* thread is in, and, where nothing has trapped, nobody waits in a circle. *)
(*                                                                         *)
(* The argument is about the stacks.  A take stands on a caller that waits *)
(* or on the block that makes its offer, so what it found in the           *)
(* thread-locals is known from the take below it (BaseGate, BaseSink), and *)
(* what it puts back is right for that take.  An offer's parent is the     *)
(* offer of the take its caller stands on, which is live: its caller is    *)
(* further down a stack, or it has a helper and its caller waits.          *)
(***************************************************************************)
EXTENDS FanNest, FiniteSetTheorems, SequenceTheorems, WellFoundedInduction, TLAPS
-----------------------------------------------------------------------------
(* The invariant *)

Sinks == (Offers \X Nat) \cup {None}
Frame == [offer : Offers, helper : BOOLEAN, pc : {"draw", "run", "wait", "trap"}, blk : Nat,
          took : BOOLEAN, prevGate : Offers \cup {None}, prevSink : Sinks, waitSink : Sinks,
          level : Sinks]

Types ==
  /\ stack \in [Threads -> Seq(Frame)]
  /\ inGate \in [Threads -> Offers \cup {None}]
  /\ sink \in [Threads -> Sinks]
  /\ made \subseteq Offers /\ returned \subseteq made /\ published \subseteq made \ returned
  /\ next \in [Offers -> Nat]
  /\ inside \in [Offers -> Int]
  /\ parent \in [Offers -> Offers \cup {None}]
  /\ above \in [Offers -> Sinks]
  /\ done \in [Offers -> SUBSET Nat]
  /\ \A o \in Offers : next[o] <= NBlocks[o] /\ done[o] \subseteq 0..(NBlocks[o] - 1)

\* What was current on thread t before its take number i: a hand had nothing, a
\* waiting caller what it has put back, a caller what its offer found.
BaseGate(t, i) ==
  IF stack[t][i].helper THEN IF i = 1 THEN None ELSE parent[stack[t][i - 1].offer]
                        ELSE parent[stack[t][i].offer]
BaseSink(t, i) ==
  IF stack[t][i].helper THEN IF i = 1 THEN None ELSE above[stack[t][i - 1].offer]
                        ELSE above[stack[t][i].offer]

\* A take is of a live offer, and remembers what to put back.
TakeOK(t, i) ==
  LET f == stack[t][i] IN
  /\ f.offer \in made \ returned
  /\ f.blk < NBlocks[f.offer]
  /\ f.pc = "wait" => ~f.helper /\ f.offer \notin published
  /\ f.pc \in {"run", "trap"} => f.took /\ f.prevSink = BaseSink(t, i)
  /\ f.took => f.prevGate = BaseGate(t, i)
  /\ f.helper => f.waitSink = BaseSink(t, i)

\* What a take stands on: a helper on a caller that waits, a caller on the block
\* that makes its offer.
LinkOK(t, i) ==
  LET f == stack[t][i]  g == stack[t][i + 1] IN
  IF g.helper THEN f.pc = "wait"
              ELSE f.pc = "run" /\ g.offer # Outermost /\ MadeIn[g.offer] = <<f.offer, f.blk>>

\* The thread-locals are those of the innermost take.
LocalsOK(t) ==
  LET n == Len(stack[t])  f == stack[t][n] IN
  IF n = 0 THEN inGate[t] = None /\ sink[t] = None
  ELSE /\ inGate[t] = IF f.took /\ f.pc # "wait" THEN f.offer ELSE BaseGate(t, n)
       /\ sink[t] = IF f.pc \in {"run", "trap"} THEN <<f.offer, f.blk>> ELSE BaseSink(t, n)

StackOK(t) ==
  /\ \A i \in 1..Len(stack[t]) : TakeOK(t, i)
  /\ \A i \in 1..(Len(stack[t]) - 1) : LinkOK(t, i)
  /\ stack[t] # <<>> /\ ~stack[t][1].helper => stack[t][1].offer = Outermost
  /\ LocalsOK(t)

\* An offer is in the tree where the program makes it.
MadeOK ==
  /\ parent[Outermost] = None /\ above[Outermost] = None
  /\ \A o \in made \ {Outermost} : parent[o] = MadeIn[o][1] /\ above[o] = MadeIn[o]

\* Take i of thread t is the one of the caller of offer o, or of a helper.
CallerAt(t, i, o) == i <= Len(stack[t]) /\ ~stack[t][i].helper /\ stack[t][i].offer = o
HelperAt(t, i, o) == i <= Len(stack[t]) /\ stack[t][i].helper /\ stack[t][i].offer = o

\* A live offer has one caller, and `inside` counts its helpers.
Nat1 == Nat \ {0}
HelpersOf(o) == {x \in Threads \X Nat1 : HelperAt(x[1], x[2], o)}
CallersOK ==
  /\ \A o \in made \ returned : \E t \in Threads, i \in Nat1 : CallerAt(t, i, o)
  /\ \A t, u \in Threads, i, j \in Nat1, o \in Offers :
       CallerAt(t, i, o) /\ CallerAt(u, j, o) => t = u /\ i = j
InsideOK == \A o \in Offers : IsFiniteSet(HelpersOf(o)) /\ inside[o] = Cardinality(HelpersOf(o))

NestInv == Types /\ (\A t \in Threads : StackOK(t)) /\ MadeOK /\ CallersOK /\ InsideOK

\* The offers can be numbered in the order they were made: a caller's take
\* stands on takes of earlier offers only.
Numbers(ord) ==
  \A t \in Threads : \A i, j \in 1..Len(stack[t]) :
    i < j /\ ~stack[t][j].helper => ord[stack[t][i].offer] < ord[stack[t][j].offer]
Counted(ord) == \A o \in made : ord[o] < Cardinality(made)
OrderInv == \E ord \in [Offers -> Nat] : Numbers(ord) /\ Counted(ord)

\* Among the threads none of which has trapped, one waits for none of the others.
UntrappedMove ==
  \A S \in (SUBSET {t \in Threads : ~TopIs(t, {"trap"})}) \ {{}} :
    \E t \in S : \A u \in S : ~WaitsFor(t, u)
-----------------------------------------------------------------------------
(* What a step does to a stack *)

\* The other threads' stacks are as they were.
Others(t) == stack' \in [Threads -> Seq(Frame)] /\ \A u \in Threads \ {t} : stack'[u] = stack[u]

\* The stack of thread t, of length n, has gained take f on top ...
Pushed(t, n, f) ==
  /\ Others(t)
  /\ Len(stack'[t]) = n + 1
  /\ \A i \in 1..n : stack'[t][i] = stack[t][i]
  /\ stack'[t][n + 1] = f

\* ... has lost the one on top ...
Popped(t, n) ==
  /\ Others(t)
  /\ Len(stack'[t]) = n - 1
  /\ \A i \in 1..(n - 1) : stack'[t][i] = stack[t][i]

\* ... or has f there in place of another take of the same offer in the same role.
Topped(t, n, f) ==
  /\ Others(t)
  /\ Len(stack'[t]) = n
  /\ \A i \in 1..(n - 1) : stack'[t][i] = stack[t][i]
  /\ stack'[t][n] = f
  /\ f.offer = stack[t][n].offer /\ f.helper = stack[t][n].helper

\* Push pushes.
LEMMA PushEffect ==
  ASSUME Types, NEW t \in Threads, NEW f \in Frame, Push(t, f)
  PROVE  Pushed(t, Len(stack[t]), f)
<1>1. stack[t] \in Seq(Frame) /\ Len(stack[t]) \in Nat
  BY DEF Types
<1>2. stack'[t] = Append(stack[t], f) /\ stack' = [stack EXCEPT ![t] = Append(stack[t], f)]
  BY DEF Types, Push
<1>3. /\ Append(stack[t], f) \in Seq(Frame)
      /\ Len(Append(stack[t], f)) = Len(stack[t]) + 1
      /\ \A i \in 1..Len(stack[t]) : Append(stack[t], f)[i] = stack[t][i]
      /\ Append(stack[t], f)[Len(stack[t]) + 1] = f
  BY <1>1, AppendProperties
<1>4. Others(t)
  BY <1>2, <1>3 DEF Types, Others
<1> QED
  BY <1>2, <1>3, <1>4 DEF Pushed

\* The stack under its top take.
LEMMA PopEffect ==
  ASSUME Types, NEW t \in Threads, stack[t] # <<>>, stack' = [stack EXCEPT ![t] = Below(t)]
  PROVE  Popped(t, Len(stack[t]))
<1> DEFINE n == Len(stack[t])
<1>1. stack[t] \in Seq(Frame) /\ n \in Nat \ {0} /\ \A i \in 1..n : stack[t][i] \in Frame
  BY EmptySeq, LenProperties, ElementOfSeq DEF Types
<1>2. stack'[t] = SubSeq(stack[t], 1, n - 1)
  BY DEF Types, Below
<1>3. \A i \in 1..(n - 1) : stack[t][i] \in Frame
  BY <1>1
<1>4. SubSeq(stack[t], 1, n - 1) \in Seq(Frame)
  BY <1>1, <1>3, SubSeqProperties
<1>5. Len(SubSeq(stack[t], 1, n - 1)) = n - 1
  BY <1>1, <1>3, SubSeqProperties
<1>6. \A i \in 1..(n - 1) : SubSeq(stack[t], 1, n - 1)[i] = stack[t][i]
  BY <1>1, <1>3, SubSeqProperties
<1>7. Others(t)
  BY <1>2, <1>4 DEF Types, Others, Below
<1> QED
  BY <1>2, <1>5, <1>6, <1>7 DEF Popped

\* SetTop replaces the top.
LEMMA TopEffect ==
  ASSUME Types, NEW t \in Threads, stack[t] # <<>>, NEW f \in Frame, SetTop(t, f),
         f.offer = Top(t).offer, f.helper = Top(t).helper
  PROVE  Topped(t, Len(stack[t]), f)
<1> DEFINE n == Len(stack[t])
<1>1. stack[t] \in Seq(Frame) /\ n \in Nat \ {0}
  BY EmptySeq DEF Types
<1>2. stack'[t] = [stack[t] EXCEPT ![n] = f] /\ stack' = [stack EXCEPT ![t] = [stack[t] EXCEPT ![n] = f]]
  BY DEF Types, SetTop
<1>3. n \in 1..n
  BY <1>1
<1>4. /\ [stack[t] EXCEPT ![n] = f] \in Seq(Frame)
      /\ Len([stack[t] EXCEPT ![n] = f]) = n
      /\ \A j \in 1..n : [stack[t] EXCEPT ![n] = f][j] = IF j = n THEN f ELSE stack[t][j]
  BY <1>1, <1>3, ExceptSeq
<1>5. Others(t)
  BY <1>2, <1>4 DEF Types, Others
<1>6. \A i \in 1..(n - 1) : stack'[t][i] = stack[t][i]
  BY <1>1, <1>2, <1>4
<1>7. stack'[t][n] = f
  BY <1>2, <1>3, <1>4
<1> QED
  BY <1>2, <1>4, <1>5, <1>6, <1>7 DEF Topped, Top

\* The takes of a stack are frames, and the top is the last of them.
LEMMA TakesAreFrames ==
  ASSUME Types, NEW t \in Threads
  PROVE  /\ Len(stack[t]) \in Nat /\ (stack[t] = <<>> <=> Len(stack[t]) = 0)
         /\ \A i \in 1..Len(stack[t]) : stack[t][i] \in Frame
         /\ stack[t] # <<>> => Top(t) \in Frame /\ Len(stack[t]) \in 1..Len(stack[t])
<1>1. stack[t] \in Seq(Frame)
  BY DEF Types
<1>2. Len(stack[t]) \in Nat /\ (stack[t] # <<>> => Len(stack[t]) \in Nat \ {0})
  BY <1>1, EmptySeq
<1>3. \A i \in 1..Len(stack[t]) : stack[t][i] \in Frame
  BY <1>1, ElementOfSeq
<1>4. Len(<<>>) = 0
  BY EmptySeq
<1>5. stack[t] = <<>> <=> Len(stack[t]) = 0
  BY <1>2, <1>4
<1> QED
  BY <1>2, <1>3, <1>5 DEF Top

\* Nothing that a take relies on changes for an offer that was made.
Keeps ==
  /\ made \subseteq made'
  /\ \A o \in made : parent'[o] = parent[o] /\ above'[o] = above[o] /\ (o \in published' => o \in published)

\* A take that is there after the step, on the same kind of take, and of an offer
\* that has not returned, is as good as it was.
LEMMA TakeKept ==
  ASSUME NestInv, Keeps, NEW u \in Threads, NEW i \in 1..Len(stack[u]),
         stack'[u][i] = stack[u][i],
         i > 1 => stack'[u][i - 1].offer = stack[u][i - 1].offer,
         stack[u][i].offer \notin returned'
  PROVE  TakeOK(u, i)'
<1>1. TakeOK(u, i) /\ i \in Nat
  BY TakesAreFrames DEF NestInv, StackOK
<1>2. i > 1 => i - 1 \in 1..Len(stack[u])
  BY TakesAreFrames DEF NestInv
<1>3. stack[u][i].offer \in made /\ (i > 1 => stack[u][i - 1].offer \in made)
  BY <1>1, <1>2 DEF NestInv, StackOK, TakeOK
<1>4. BaseGate(u, i)' = BaseGate(u, i) /\ BaseSink(u, i)' = BaseSink(u, i)
  BY <1>1, <1>3 DEF BaseGate, BaseSink, Keeps
<1> QED
  BY <1>1, <1>3, <1>4 DEF TakeOK, Keeps

\* The stack of a thread that does not move.
LEMMA OtherKept ==
  ASSUME NestInv, Keeps, NEW u \in Threads, stack'[u] = stack[u],
         inGate'[u] = inGate[u], sink'[u] = sink[u],
         \A i \in 1..Len(stack[u]) : stack[u][i].offer \notin returned'
  PROVE  StackOK(u)'
<1>0. StackOK(u)
  BY DEF NestInv
<1>1. \A i \in 1..Len(stack[u]) : TakeOK(u, i)'
  BY TakeKept
<1>2. \A i \in 1..(Len(stack[u]) - 1) : LinkOK(u, i)'
  BY <1>0 DEF StackOK, LinkOK
<1>3. LocalsOK(u)'
  <2> DEFINE n == Len(stack[u])
  <2>1. n \in Nat
    BY TakesAreFrames DEF NestInv
  <2>2. CASE n = 0
    BY <1>0, <2>2 DEF StackOK, LocalsOK
  <2>3. CASE n # 0
    <3>1. PICK k \in Nat : k = n /\ k \in 1..n /\ (k # 1 => k - 1 \in 1..n)
      BY <2>1, <2>3
    <3>2. stack[u][k].offer \in made /\ (k # 1 => stack[u][k - 1].offer \in made)
      BY <1>0, <3>1 DEF StackOK, TakeOK
    <3>3. k = Len(stack[u])
      BY <3>1
    <3>4. BaseGate(u, k)' = BaseGate(u, k) /\ BaseSink(u, k)' = BaseSink(u, k)
      BY <3>2 DEF BaseGate, BaseSink, Keeps
    <3> QED
      BY <1>0, <2>3, <3>3, <3>4 DEF StackOK, LocalsOK
  <2> QED
    BY <2>2, <2>3
<1> QED
  BY <1>0, <1>1, <1>2, <1>3 DEF StackOK

\* A stack that has a take has one or has a bottom under its top.
LEMMA OneOrMore == \A n \in Nat \ {0} : n = 1 \/ (1 \in 1..(n - 1) /\ n - 1 \in 1..(n - 1))
<1> QED
  OBVIOUS

\* A step that only changes its top take keeps the stacks, if it keeps the top.
LEMMA ToppedStacks ==
  ASSUME NestInv, Keeps, returned' = returned, NEW t \in Threads, NEW n \in Nat \ {0},
         n = Len(stack[t]), NEW f \in Frame, Topped(t, n, f),
         \A u \in Threads \ {t} : inGate'[u] = inGate[u] /\ sink'[u] = sink[u],
         TakeOK(t, n)', LocalsOK(t)'
  PROVE  \A u \in Threads : StackOK(u)'
<1>1. \A u \in Threads : \A i \in 1..Len(stack[u]) : stack[u][i].offer \notin returned'
  BY DEF NestInv, StackOK, TakeOK
<1>2. ASSUME NEW u \in Threads, u # t PROVE StackOK(u)'
  BY <1>1, <1>2, OtherKept DEF Topped, Others
<1>3. StackOK(t)'
  <2>0. StackOK(t)
    BY DEF NestInv
  <2>1. ASSUME NEW i \in 1..n, i # n PROVE TakeOK(t, i)'
    <3>1. i \in 1..(n - 1) /\ (i > 1 => i - 1 \in 1..(n - 1))
      BY <2>1
    <3> QED
      BY <1>1, <3>1, TakeKept DEF Topped
  <2>2. ASSUME NEW i \in 1..(n - 1) PROVE LinkOK(t, i)'
    <3>1. LinkOK(t, i) /\ stack'[t][i] = stack[t][i]
      BY <2>0 DEF StackOK, Topped
    <3>2. stack'[t][i + 1].helper = stack[t][i + 1].helper /\ stack'[t][i + 1].offer = stack[t][i + 1].offer
      <4>1. CASE i + 1 = n
        BY <4>1 DEF Topped
      <4>2. CASE i + 1 # n
        <5>1. i + 1 \in 1..(n - 1)
          BY <4>2
        <5> QED
          BY <5>1 DEF Topped
      <4> QED
        BY <4>1, <4>2
    <3> QED
      BY <3>1, <3>2 DEF LinkOK
  <2>3. ~stack'[t][1].helper => stack'[t][1].offer = Outermost
    <3>0. stack[t] # <<>>
      BY TakesAreFrames DEF NestInv
    <3>1. CASE n = 1
      BY <2>0, <3>0, <3>1 DEF StackOK, Topped
    <3>2. CASE n # 1
      <4>1. 1 \in 1..(n - 1)
        BY <3>2, OneOrMore, Zenon
      <4>2. stack'[t][1] = stack[t][1]
        BY <4>1 DEF Topped
      <4> QED
        BY <2>0, <3>0, <4>2 DEF StackOK
    <3> QED
      BY <3>1, <3>2
  <2>4. Len(stack'[t]) = n
    BY DEF Topped
  <2>5. \A i \in 1..Len(stack'[t]) : TakeOK(t, i)'
    BY <2>1, <2>4
  <2>6. \A i \in 1..(Len(stack'[t]) - 1) : LinkOK(t, i)'
    BY <2>2, <2>4
  <2> QED
    BY <2>3, <2>5, <2>6 DEF StackOK
<1> QED
  BY <1>2, <1>3

\* The roles of the takes when the step changed only what is in its top take ...
LEMMA ToppedRoles ==
  ASSUME Types, NEW t \in Threads, NEW n \in Nat \ {0}, n = Len(stack[t]), NEW f, Topped(t, n, f),
         NEW u \in Threads, NEW i \in Nat1, NEW o
  PROVE  (CallerAt(u, i, o)' <=> CallerAt(u, i, o)) /\ (HelperAt(u, i, o)' <=> HelperAt(u, i, o))
<1>1. CASE u # t
  BY <1>1 DEF Topped, Others, CallerAt, HelperAt
<1>2. CASE u = t /\ i > n
  BY <1>2 DEF Topped, CallerAt, HelperAt, Nat1
<1>3. CASE u = t /\ i = n
  BY <1>3 DEF Topped, CallerAt, HelperAt, Nat1
<1>4. CASE u = t /\ i < n
  <2>1. i \in 1..(n - 1)
    BY <1>4 DEF Nat1
  <2> QED
    BY <1>4, <2>1 DEF Topped, CallerAt, HelperAt
<1> QED
  BY <1>1, <1>2, <1>3, <1>4 DEF Nat1

\* ... gained a take ...
LEMMA PushedRoles ==
  ASSUME Types, NEW t \in Threads, NEW n \in Nat, n = Len(stack[t]), NEW f \in Frame, Pushed(t, n, f),
         NEW u \in Threads, NEW i \in Nat1, NEW o
  PROVE  /\ CallerAt(u, i, o)' <=> (CallerAt(u, i, o) \/ (u = t /\ i = n + 1 /\ ~f.helper /\ f.offer = o))
         /\ HelperAt(u, i, o)' <=> (HelperAt(u, i, o) \/ (u = t /\ i = n + 1 /\ f.helper /\ f.offer = o))
<1>1. CASE u # t
  BY <1>1 DEF Pushed, Others, CallerAt, HelperAt
<1>2. CASE u = t /\ i > n + 1
  BY <1>2 DEF Pushed, CallerAt, HelperAt, Nat1
<1>3. CASE u = t /\ i = n + 1
  BY <1>3 DEF Pushed, CallerAt, HelperAt, Nat1
<1>4. CASE u = t /\ i <= n
  <2>1. i \in 1..n
    BY <1>4 DEF Nat1
  <2> QED
    BY <1>4, <2>1 DEF Pushed, CallerAt, HelperAt
<1> QED
  BY <1>1, <1>2, <1>3, <1>4 DEF Nat1

\* ... or lost one.
LEMMA PoppedRoles ==
  ASSUME Types, NEW t \in Threads, NEW n \in Nat \ {0}, n = Len(stack[t]), Popped(t, n),
         NEW u \in Threads, NEW i \in Nat1, NEW o
  PROVE  /\ CallerAt(u, i, o)' <=> CallerAt(u, i, o) /\ ~(u = t /\ i = n)
         /\ HelperAt(u, i, o)' <=> HelperAt(u, i, o) /\ ~(u = t /\ i = n)
<1>1. CASE u # t
  BY <1>1 DEF Popped, Others, CallerAt, HelperAt
<1>2. CASE u = t /\ i >= n
  BY <1>2 DEF Popped, CallerAt, HelperAt, Nat1
<1>3. CASE u = t /\ i < n
  <2>1. i \in 1..(n - 1)
    BY <1>3 DEF Nat1
  <2> QED
    BY <1>3, <2>1 DEF Popped, CallerAt, HelperAt
<1> QED
  BY <1>1, <1>2, <1>3 DEF Nat1

\* With the roles as they were, so are the callers and the counts.
LEMMA SameRoles ==
  ASSUME NestInv, UNCHANGED <<made, returned, inside>>,
         \A u \in Threads, i \in Nat1, o \in Offers :
           (CallerAt(u, i, o)' <=> CallerAt(u, i, o)) /\ (HelperAt(u, i, o)' <=> HelperAt(u, i, o))
  PROVE  CallersOK' /\ InsideOK'
<1>1. CallersOK'
  BY DEF NestInv, CallersOK, Types
<1>2. ASSUME NEW o \in Offers PROVE HelpersOf(o)' = HelpersOf(o)
  BY DEF HelpersOf
<1>3. InsideOK'
  BY <1>2 DEF NestInv, InsideOK
<1> QED
  BY <1>1, <1>3
-----------------------------------------------------------------------------
(* The steps that change the top take *)

\* What the invariant says of the top take of thread t.
LEMMA TopFacts ==
  ASSUME NestInv, NEW t \in Threads, stack[t] # <<>>
  PROVE  \E n \in Nat \ {0} :
           /\ n = Len(stack[t]) /\ n \in 1..n /\ Top(t) = stack[t][n] /\ Top(t) \in Frame
           /\ TakeOK(t, n)
           /\ inGate[t] = IF Top(t).took /\ Top(t).pc # "wait" THEN Top(t).offer ELSE BaseGate(t, n)
           /\ sink[t] = IF Top(t).pc \in {"run", "trap"} THEN <<Top(t).offer, Top(t).blk>>
                                                          ELSE BaseSink(t, n)
<1>1. PICK n \in Nat : n = Len(stack[t])
  BY TakesAreFrames DEF NestInv
<1>2. n # 0 /\ n \in 1..n /\ Top(t) \in Frame
  BY <1>1, TakesAreFrames DEF NestInv
<1>3. Top(t) = stack[t][n]
  BY <1>1 DEF Top
<1>4. TakeOK(t, n)
  BY <1>1, <1>2 DEF NestInv, StackOK
<1>5. LocalsOK(t)
  BY DEF NestInv, StackOK
<1> QED
  BY <1>1, <1>2, <1>3, <1>4, <1>5 DEF LocalsOK

\* A step that changes the top take, and offers neither made nor returned.
LEMMA TopStep ==
  ASSUME NestInv, NEW t \in Threads, NEW n \in Nat \ {0}, n = Len(stack[t]), NEW f \in Frame,
         Topped(t, n, f), UNCHANGED <<made, returned, inside, parent, above>>,
         published' \subseteq published,
         inGate' \in [Threads -> Offers \cup {None}], sink' \in [Threads -> Sinks],
         next' \in [Offers -> Nat], done' \in [Offers -> SUBSET Nat],
         \A o \in Offers : next'[o] <= NBlocks[o] /\ done'[o] \subseteq 0..(NBlocks[o] - 1),
         \A u \in Threads \ {t} : inGate'[u] = inGate[u] /\ sink'[u] = sink[u],
         f.blk < NBlocks[f.offer],
         f.pc = "wait" => ~f.helper /\ f.offer \notin published',
         f.pc \in {"run", "trap"} => f.took /\ f.prevSink = BaseSink(t, n),
         f.took => f.prevGate = BaseGate(t, n),
         f.helper => f.waitSink = BaseSink(t, n),
         inGate'[t] = IF f.took /\ f.pc # "wait" THEN f.offer ELSE BaseGate(t, n),
         sink'[t] = IF f.pc \in {"run", "trap"} THEN <<f.offer, f.blk>> ELSE BaseSink(t, n)
  PROVE  NestInv'
<1>1. Types'
  BY DEF NestInv, Types, Topped, Others
<1>2. Keeps
  BY DEF NestInv, Types, Keeps
<1>3. stack'[t][n] = f /\ f.helper = stack[t][n].helper /\ f.offer = stack[t][n].offer
      /\ Len(stack'[t]) = n
  BY DEF Topped
<1>4. n # 1 => stack'[t][n - 1].offer = stack[t][n - 1].offer
  <2>1. n # 1 => n - 1 \in 1..(n - 1)
    BY OneOrMore, Zenon
  <2> QED
    BY <2>1 DEF Topped
<1>5. BaseGate(t, n)' = BaseGate(t, n) /\ BaseSink(t, n)' = BaseSink(t, n)
  BY <1>3, <1>4 DEF BaseGate, BaseSink
<1>6. f.offer \in made \ returned
  <2>1. n \in 1..Len(stack[t])
    OBVIOUS
  <2> QED
    BY <1>3, <2>1 DEF NestInv, StackOK, TakeOK
<1>7. TakeOK(t, n)'
  BY <1>3, <1>5, <1>6 DEF TakeOK
<1>8. LocalsOK(t)'
  BY <1>3, <1>5 DEF LocalsOK
<1>9. \A u \in Threads : StackOK(u)'
  BY <1>2, <1>7, <1>8, ToppedStacks
<1>10. CallersOK' /\ InsideOK'
  BY ToppedRoles, SameRoles DEF NestInv
<1>11. MadeOK'
  BY DEF NestInv, MadeOK
<1> QED
  BY <1>1, <1>9, <1>10, <1>11 DEF NestInv

\* AlmideFanGate::draw and almide_fan_enter.
LEMMA DrawStep ==
  ASSUME NestInv, NEW t \in Threads, Draw(t)
  PROVE  NestInv'
<1>1. stack[t] # <<>> /\ Top(t).pc = "draw"
  BY DEF Draw, TopIs
<1>2. PICK n \in Nat \ {0} :
           /\ n = Len(stack[t]) /\ n \in 1..n /\ Top(t) = stack[t][n] /\ Top(t) \in Frame
           /\ TakeOK(t, n)
           /\ inGate[t] = IF Top(t).took /\ Top(t).pc # "wait" THEN Top(t).offer ELSE BaseGate(t, n)
           /\ sink[t] = IF Top(t).pc \in {"run", "trap"} THEN <<Top(t).offer, Top(t).blk>>
                                                          ELSE BaseSink(t, n)
  BY <1>1, TopFacts
<1> DEFINE g == Top(t)  o == g.offer
           f == [g EXCEPT !.pc = "run", !.blk = next[o], !.took = TRUE, !.prevSink = sink[t],
                          !.prevGate = IF g.took THEN @ ELSE inGate[t]]
<1>3. /\ next[o] < NBlocks[o]
      /\ next' = [next EXCEPT ![o] = next[o] + 1]
      /\ inGate' = [inGate EXCEPT ![t] = o]
      /\ sink' = [sink EXCEPT ![t] = <<o, next[o]>>]
      /\ SetTop(t, f)
      /\ UNCHANGED <<made, returned, published, inside, parent, above, done>>
  BY DEF Draw
<1>4. g \in Frame /\ o \in Offers /\ next[o] \in Nat /\ <<o, next[o]>> \in Sinks /\ NBlocks[o] \in Nat
  BY <1>2, NestAssumption DEF Frame, NestInv, Types, Sinks
<1>5. /\ f \in Frame /\ f.offer = o /\ f.helper = g.helper /\ f.pc = "run" /\ f.blk = next[o] /\ f.took
      /\ f.prevSink = sink[t] /\ f.waitSink = g.waitSink
      /\ f.prevGate = IF g.took THEN g.prevGate ELSE inGate[t]
  <2>1. inGate[t] \in Offers \cup {None} /\ sink[t] \in Sinks
    BY DEF NestInv, Types
  <2> QED
    BY <1>4, <2>1 DEF Frame
<1> HIDE DEF f
<1>6. Topped(t, n, f)
  BY <1>1, <1>2, <1>3, <1>5, TopEffect DEF NestInv
<1>7. f.prevSink = BaseSink(t, n) /\ f.prevGate = BaseGate(t, n) /\ (f.helper => f.waitSink = BaseSink(t, n))
  BY <1>1, <1>2, <1>5 DEF TakeOK
<1>8. inGate' \in [Threads -> Offers \cup {None}] /\ sink' \in [Threads -> Sinks]
  BY <1>3, <1>4 DEF NestInv, Types
<1>9. next' \in [Offers -> Nat] /\ \A x \in Offers : next'[x] <= NBlocks[x]
  BY <1>3, <1>4 DEF NestInv, Types
<1>10. /\ inGate'[t] = o /\ sink'[t] = <<o, next[o]>>
       /\ \A u \in Threads \ {t} : inGate'[u] = inGate[u] /\ sink'[u] = sink[u]
  BY <1>3 DEF NestInv, Types
<1>11. done' \in [Offers -> SUBSET Nat] /\ \A x \in Offers : done'[x] \subseteq 0..(NBlocks[x] - 1)
  BY <1>3 DEF NestInv, Types
<1>12. /\ f \in Frame /\ f.blk < NBlocks[f.offer] /\ f.pc = "run" /\ f.took
       /\ f.prevSink = BaseSink(t, n) /\ f.prevGate = BaseGate(t, n)
       /\ (f.helper => f.waitSink = BaseSink(t, n))
       /\ inGate'[t] = f.offer /\ sink'[t] = <<f.offer, f.blk>>
  BY <1>3, <1>5, <1>7, <1>10
<1>13. UNCHANGED <<made, returned, inside, parent, above>> /\ published' \subseteq published
  BY <1>3
<1> HIDE DEF o, g
<1> QED
  BY <1>2, <1>6, <1>8, <1>9, <1>10, <1>11, <1>12, <1>13, TopStep, SMTT(60)

\* The end of a block: Drop for AlmideFanElem.
LEMMA EndBlockStep ==
  ASSUME NestInv, NEW t \in Threads, EndBlock(t)
  PROVE  NestInv'
<1>1. stack[t] # <<>> /\ Top(t).pc = "run"
  BY DEF EndBlock, BodyOver, TopIs
<1>2. PICK n \in Nat \ {0} :
           /\ n = Len(stack[t]) /\ n \in 1..n /\ Top(t) = stack[t][n] /\ Top(t) \in Frame
           /\ TakeOK(t, n)
           /\ inGate[t] = IF Top(t).took /\ Top(t).pc # "wait" THEN Top(t).offer ELSE BaseGate(t, n)
           /\ sink[t] = IF Top(t).pc \in {"run", "trap"} THEN <<Top(t).offer, Top(t).blk>>
                                                          ELSE BaseSink(t, n)
  BY <1>1, TopFacts
<1> DEFINE g == Top(t)  o == g.offer  f == [g EXCEPT !.pc = "draw"]
<1>3. /\ done' = [done EXCEPT ![o] = done[o] \cup {g.blk}]
      /\ sink' = [sink EXCEPT ![t] = g.prevSink]
      /\ SetTop(t, f)
      /\ UNCHANGED <<inGate, made, returned, published, next, inside, parent, above>>
  BY DEF EndBlock
<1>4. g \in Frame /\ o \in Offers /\ g.blk \in Nat /\ g.prevSink \in Sinks /\ NBlocks[o] \in Nat
  BY <1>2, NestAssumption DEF Frame
<1>5. /\ f \in Frame /\ f.offer = o /\ f.helper = g.helper /\ f.pc = "draw" /\ f.blk = g.blk
      /\ f.took = g.took /\ f.waitSink = g.waitSink /\ f.prevGate = g.prevGate
  BY <1>4 DEF Frame
<1> HIDE DEF f
<1>6. Topped(t, n, f)
  BY <1>1, <1>2, <1>3, <1>5, TopEffect DEF NestInv
<1>7. /\ g.took /\ g.prevSink = BaseSink(t, n) /\ g.prevGate = BaseGate(t, n)
      /\ (g.helper => g.waitSink = BaseSink(t, n)) /\ g.blk < NBlocks[o] /\ inGate[t] = o
  BY <1>1, <1>2 DEF TakeOK
<1>8. inGate' \in [Threads -> Offers \cup {None}] /\ sink' \in [Threads -> Sinks]
  BY <1>3, <1>4 DEF NestInv, Types
<1>9. done' \in [Offers -> SUBSET Nat] /\ \A x \in Offers : done'[x] \subseteq 0..(NBlocks[x] - 1)
  <2>1. done \in [Offers -> SUBSET Nat] /\ \A x \in Offers : done[x] \subseteq 0..(NBlocks[x] - 1)
    BY DEF NestInv, Types
  <2>2. g.blk \in 0..(NBlocks[o] - 1)
    BY <1>4, <1>7
  <2>3. done'[o] = done[o] \cup {g.blk} /\ \A x \in Offers \ {o} : done'[x] = done[x]
    BY <1>3, <1>4, <2>1
  <2>4. done' \in [Offers -> SUBSET Nat]
    BY <1>3, <1>4, <2>1
  <2> QED
    BY <2>1, <2>2, <2>3, <2>4
<1>10. /\ inGate'[t] = o /\ sink'[t] = BaseSink(t, n)
       /\ \A u \in Threads \ {t} : inGate'[u] = inGate[u] /\ sink'[u] = sink[u]
  BY <1>3, <1>7 DEF NestInv, Types
<1>11. next' \in [Offers -> Nat] /\ \A x \in Offers : next'[x] <= NBlocks[x]
  BY <1>3 DEF NestInv, Types
<1>12. /\ f \in Frame /\ f.blk < NBlocks[f.offer] /\ f.pc = "draw" /\ f.took
       /\ f.prevGate = BaseGate(t, n)
       /\ (f.helper => f.waitSink = BaseSink(t, n))
       /\ inGate'[t] = f.offer /\ sink'[t] = BaseSink(t, n)
  BY <1>3, <1>5, <1>7, <1>10
<1>13. UNCHANGED <<made, returned, inside, parent, above>> /\ published' \subseteq published
  BY <1>3
<1> HIDE DEF o, g
<1> QED
  BY <1>2, <1>6, <1>8, <1>9, <1>10, <1>11, <1>12, <1>13, TopStep, SMTT(60)

\* The caller has drawn past the last block: the gate before it is current again.
LEMMA WithdrawStep ==
  ASSUME NestInv, NEW t \in Threads, WithdrawAndWait(t)
  PROVE  NestInv'
<1>1. stack[t] # <<>> /\ Top(t).pc = "draw" /\ ~Top(t).helper
  BY DEF WithdrawAndWait, TopIs
<1>2. PICK n \in Nat \ {0} :
           /\ n = Len(stack[t]) /\ n \in 1..n /\ Top(t) = stack[t][n] /\ Top(t) \in Frame
           /\ TakeOK(t, n)
           /\ inGate[t] = IF Top(t).took /\ Top(t).pc # "wait" THEN Top(t).offer ELSE BaseGate(t, n)
           /\ sink[t] = IF Top(t).pc \in {"run", "trap"} THEN <<Top(t).offer, Top(t).blk>>
                                                          ELSE BaseSink(t, n)
  BY <1>1, TopFacts
<1> DEFINE g == Top(t)  o == g.offer  f == [g EXCEPT !.pc = "wait"]
<1>3. /\ inGate' = [inGate EXCEPT ![t] = IF g.took THEN g.prevGate ELSE inGate[t]]
      /\ published' = published \ {o}
      /\ SetTop(t, f)
      /\ UNCHANGED <<sink, made, returned, next, inside, parent, above, done>>
  BY DEF WithdrawAndWait, Restored
<1>4. g \in Frame /\ o \in Offers /\ g.prevGate \in Offers \cup {None}
  BY <1>2 DEF Frame
<1>5. /\ f \in Frame /\ f.offer = o /\ f.helper = g.helper /\ f.pc = "wait" /\ f.blk = g.blk
      /\ f.took = g.took /\ f.waitSink = g.waitSink /\ f.prevGate = g.prevGate
  BY <1>4 DEF Frame
<1> HIDE DEF f
<1>6. Topped(t, n, f)
  BY <1>1, <1>2, <1>3, <1>5, TopEffect DEF NestInv
<1>7. /\ g.took => g.prevGate = BaseGate(t, n)
      /\ ~g.took => inGate[t] = BaseGate(t, n)
      /\ sink[t] = BaseSink(t, n) /\ g.blk < NBlocks[o] /\ ~g.helper
  BY <1>1, <1>2 DEF TakeOK
<1>8. inGate' \in [Threads -> Offers \cup {None}] /\ sink' \in [Threads -> Sinks]
  BY <1>3, <1>4 DEF NestInv, Types
<1>9. done' \in [Offers -> SUBSET Nat] /\ \A x \in Offers : done'[x] \subseteq 0..(NBlocks[x] - 1)
  BY <1>3 DEF NestInv, Types
<1>10. /\ inGate'[t] = BaseGate(t, n) /\ sink'[t] = BaseSink(t, n)
       /\ \A u \in Threads \ {t} : inGate'[u] = inGate[u] /\ sink'[u] = sink[u]
  BY <1>3, <1>7 DEF NestInv, Types
<1>11. next' \in [Offers -> Nat] /\ \A x \in Offers : next'[x] <= NBlocks[x]
  BY <1>3 DEF NestInv, Types
<1>12. published' \subseteq published /\ f.offer \notin published'
  BY <1>3, <1>5
<1> HIDE DEF o, g
<1> QED
  BY <1>2, <1>3, <1>5, <1>6, <1>7, <1>8, <1>9, <1>10, <1>11, <1>12, TopStep, SMTT(60)

\* A step of a block that ends in a trap changes its pc to "trap" and its level only.
LEMMA TrapFrame ==
  ASSUME NestInv, NEW t \in Threads, stack[t] # <<>>, Top(t).pc \in {"run", "trap"},
         NEW f \in Frame, SetTop(t, f), f.pc = "trap", f.offer = Top(t).offer, f.helper = Top(t).helper,
         f.blk = Top(t).blk, f.took = Top(t).took, f.prevGate = Top(t).prevGate,
         f.prevSink = Top(t).prevSink, f.waitSink = Top(t).waitSink, UNCHANGED <<inGate, sink, offerVars>>
  PROVE  NestInv'
<1>1. stack[t] # <<>> /\ Top(t).pc \in {"run", "trap"}
  OBVIOUS
<1>2. PICK n \in Nat \ {0} :
           /\ n = Len(stack[t]) /\ n \in 1..n /\ Top(t) = stack[t][n] /\ Top(t) \in Frame
           /\ TakeOK(t, n)
           /\ inGate[t] = IF Top(t).took /\ Top(t).pc # "wait" THEN Top(t).offer ELSE BaseGate(t, n)
           /\ sink[t] = IF Top(t).pc \in {"run", "trap"} THEN <<Top(t).offer, Top(t).blk>>
                                                          ELSE BaseSink(t, n)
  BY <1>1, TopFacts
<1> DEFINE g == Top(t)  o == g.offer
<1>3. UNCHANGED <<inGate, sink, made, returned, published, next, inside, parent, above, done>>
  BY DEF offerVars
<1>4. g \in Frame /\ o \in Offers
  BY <1>2 DEF Frame
<1>5. /\ f.offer = o /\ f.helper = g.helper /\ f.pc = "trap" /\ f.blk = g.blk
      /\ f.took = g.took /\ f.waitSink = g.waitSink /\ f.prevGate = g.prevGate /\ f.prevSink = g.prevSink
  OBVIOUS
<1>6. Topped(t, n, f)
  BY <1>1, <1>2, <1>5, TopEffect DEF NestInv
<1>7. /\ g.took /\ g.prevSink = BaseSink(t, n) /\ g.prevGate = BaseGate(t, n)
      /\ (g.helper => g.waitSink = BaseSink(t, n)) /\ g.blk < NBlocks[o]
      /\ inGate[t] = o /\ sink[t] = <<o, g.blk>>
  BY <1>1, <1>2 DEF TakeOK
<1>8. inGate' \in [Threads -> Offers \cup {None}] /\ sink' \in [Threads -> Sinks]
  BY <1>3 DEF NestInv, Types
<1>9. done' \in [Offers -> SUBSET Nat] /\ \A x \in Offers : done'[x] \subseteq 0..(NBlocks[x] - 1)
  BY <1>3 DEF NestInv, Types
<1>10. /\ inGate'[t] = o /\ sink'[t] = <<o, g.blk>>
       /\ \A u \in Threads \ {t} : inGate'[u] = inGate[u] /\ sink'[u] = sink[u]
  BY <1>3, <1>7 DEF NestInv, Types
<1>11. next' \in [Offers -> Nat] /\ \A x \in Offers : next'[x] <= NBlocks[x]
  BY <1>3 DEF NestInv, Types
<1>12. /\ f.blk < NBlocks[f.offer] /\ f.pc = "trap" /\ f.took
       /\ f.prevSink = BaseSink(t, n) /\ f.prevGate = BaseGate(t, n)
       /\ (f.helper => f.waitSink = BaseSink(t, n))
       /\ inGate'[t] = f.offer /\ sink'[t] = <<f.offer, f.blk>>
  BY <1>5, <1>7, <1>10
<1> HIDE DEF o, g
<1>13. UNCHANGED <<made, returned, inside, parent, above>> /\ published' \subseteq published
  BY <1>3
<1> QED
  BY <1>2, <1>6, <1>8, <1>9, <1>10, <1>11, <1>12, <1>13, TopStep, ZenonT(60)

\* almide_fan_trap_wait: a body traps.
LEMMA TrapStep ==
  ASSUME NestInv, NEW t \in Threads, Trap(t)
  PROVE  NestInv'
<1> DEFINE f == [Top(t) EXCEPT !.pc = "trap", !.level = sink[t]]
<1>1. stack[t] # <<>> /\ Top(t).pc \in {"run", "trap"}
  BY DEF Trap, BodyOver, TopIs
<1>2. Top(t) \in Frame /\ sink[t] \in Sinks
  BY <1>1, TakesAreFrames DEF NestInv, Types
<1>3. /\ f \in Frame /\ f.pc = "trap" /\ f.offer = Top(t).offer /\ f.helper = Top(t).helper
      /\ f.blk = Top(t).blk /\ f.took = Top(t).took /\ f.prevGate = Top(t).prevGate
      /\ f.prevSink = Top(t).prevSink /\ f.waitSink = Top(t).waitSink
  BY <1>2 DEF Frame
<1>4. SetTop(t, f) /\ UNCHANGED <<inGate, sink, offerVars>>
  BY DEF Trap
<1> HIDE DEF f
<1> QED
  BY <1>1, <1>3, <1>4, TrapFrame

\* One level up: what the group's parent was is a sink again.
LEMMA TrapUpStep ==
  ASSUME NestInv, NEW t \in Threads, TrapUp(t)
  PROVE  NestInv'
<1> DEFINE f == [Top(t) EXCEPT !.level = above[Top(t).level[1]]]
<1>1. stack[t] # <<>> /\ Top(t).pc = "trap" /\ Top(t).level # None
  BY DEF TrapUp, TopIs
<1>2. Top(t) \in Frame
  BY <1>1, TakesAreFrames DEF NestInv
<1>3. above[Top(t).level[1]] \in Sinks
  <2>1. Top(t).level[1] \in Offers
    BY <1>1, <1>2 DEF Frame, Sinks
  <2> QED
    BY <2>1 DEF NestInv, Types
<1>4. /\ f \in Frame /\ f.pc = "trap" /\ f.offer = Top(t).offer /\ f.helper = Top(t).helper
      /\ f.blk = Top(t).blk /\ f.took = Top(t).took /\ f.prevGate = Top(t).prevGate
      /\ f.prevSink = Top(t).prevSink /\ f.waitSink = Top(t).waitSink
  BY <1>1, <1>2, <1>3 DEF Frame
<1>5. SetTop(t, f) /\ UNCHANGED <<inGate, sink, offerVars>>
  BY DEF TrapUp
<1>6. Top(t).pc \in {"run", "trap"}
  BY <1>1
<1> HIDE DEF f
<1> QED
  BY <1>1, <1>4, <1>5, <1>6, TrapFrame

\* Nothing the invariant is about has moved.
LEMMA NothingMoved ==
  ASSUME NestInv, UNCHANGED <<stack, inGate, sink, offerVars>>
  PROVE  NestInv'
<1>1. Types' /\ MadeOK'
  BY DEF NestInv, Types, MadeOK, offerVars
<1>2. Keeps /\ returned' = returned
  BY DEF Keeps, offerVars
<1>3. \A u \in Threads : \A i \in 1..Len(stack[u]) : stack[u][i].offer \notin returned'
  BY <1>2 DEF NestInv, StackOK, TakeOK
<1>4. \A u \in Threads : StackOK(u)'
  BY <1>2, <1>3, OtherKept
<1>5. CallersOK' /\ InsideOK'
  BY SameRoles DEF offerVars, CallerAt, HelperAt
<1> QED
  BY <1>1, <1>4, <1>5 DEF NestInv
-----------------------------------------------------------------------------
(* The steps that push a take *)

\* A new take keeps the stacks, if what it found in the thread-locals is what it
\* will put back and it stands on the right kind of take.
LEMMA PushedStacks ==
  ASSUME NestInv, Keeps, returned' = returned, NEW t \in Threads, NEW n \in Nat, n = Len(stack[t]),
         NEW f \in Frame, Pushed(t, n, f), UNCHANGED <<inGate, sink>>,
         f.offer \in made' \ returned', f.blk < NBlocks[f.offer], f.pc = "draw", ~f.took,
         BaseGate(t, n + 1)' = inGate[t], BaseSink(t, n + 1)' = sink[t],
         f.helper => f.waitSink = sink[t],
         n # 0 => LinkOK(t, n)', n = 0 /\ ~f.helper => f.offer = Outermost
  PROVE  \A u \in Threads : StackOK(u)'
<1>1. \A u \in Threads : \A i \in 1..Len(stack[u]) : stack[u][i].offer \notin returned'
  BY DEF NestInv, StackOK, TakeOK
<1>2. ASSUME NEW u \in Threads, u # t PROVE StackOK(u)'
  BY <1>1, <1>2, OtherKept DEF Pushed, Others
<1>3. StackOK(t)'
  <2>0. StackOK(t)
    BY DEF NestInv
  <2>1. stack'[t][n + 1] = f /\ Len(stack'[t]) = n + 1 /\ \A i \in 1..n : stack'[t][i] = stack[t][i]
    BY DEF Pushed
  <2>2. ASSUME NEW i \in 1..n PROVE TakeOK(t, i)'
    <3>1. i > 1 => i - 1 \in 1..n
      OBVIOUS
    <3> QED
      BY <1>1, <2>1, <3>1, TakeKept
  <2>3. TakeOK(t, n + 1)'
    BY <2>1 DEF TakeOK
  <2>4. ASSUME NEW i \in 1..(n - 1) PROVE LinkOK(t, i)'
    <3>1. i \in 1..n /\ i + 1 \in 1..n
      OBVIOUS
    <3>2. LinkOK(t, i) /\ stack'[t][i] = stack[t][i] /\ stack'[t][i + 1] = stack[t][i + 1]
      BY <2>0, <2>1, <3>1 DEF StackOK
    <3> QED
      BY <3>2 DEF LinkOK
  <2>5. stack'[t] # <<>> /\ (~stack'[t][1].helper => stack'[t][1].offer = Outermost)
    <3>1. stack'[t] # <<>>
      BY <2>1, EmptySeq
    <3>2. CASE n = 0
      BY <2>1, <3>1, <3>2
    <3>3. CASE n # 0
      <4>1. stack[t] # <<>> /\ 1 \in 1..n
        BY <3>3, EmptySeq
      <4> QED
        BY <2>0, <2>1, <3>1, <4>1 DEF StackOK
    <3> QED
      BY <3>2, <3>3
  <2>6. LocalsOK(t)'
    <3>1. n + 1 # 0
      OBVIOUS
    <3> QED
      BY <2>1, <3>1 DEF LocalsOK
  <2>7. ASSUME NEW i \in 1..(n + 1) PROVE TakeOK(t, i)'
    <3>1. i \in 1..n \/ i = n + 1
      OBVIOUS
    <3> QED
      BY <2>2, <2>3, <3>1
  <2>8. ASSUME NEW i \in 1..((n + 1) - 1) PROVE LinkOK(t, i)'
    <3>1. i \in 1..(n - 1) \/ (i = n /\ n # 0)
      OBVIOUS
    <3> QED
      BY <2>4, <3>1
  <2> QED
    BY <2>1, <2>5, <2>6, <2>7, <2>8 DEF StackOK
<1> QED
  BY <1>2, <1>3

\* Every offer has a block 0.
LEMMA FirstBlock == \A o \in Offers : NBlocks[o] \in Nat /\ 0 < NBlocks[o]
<1>1. NBlocks \in [Offers -> Nat \ {0}]
  BY NestAssumption
<1> QED
  BY <1>1

\* A new take is a frame.
LEMMA NewTakeFrame ==
  ASSUME NEW o \in Offers, NEW h \in BOOLEAN, NEW s \in Sinks
  PROVE  /\ NewTake(o, h, s) \in Frame /\ NewTake(o, h, s).offer = o /\ NewTake(o, h, s).helper = h
         /\ NewTake(o, h, s).pc = "draw" /\ NewTake(o, h, s).blk = 0 /\ ~NewTake(o, h, s).took
         /\ NewTake(o, h, s).waitSink = s
<1>1. None \in Sinks /\ 0 \in Nat
  BY DEF Sinks
<1> QED
  BY <1>1 DEF NewTake, Frame

\* A take that is there is of an offer that was made and has not returned.
LEMMA RolesLive ==
  ASSUME NestInv, NEW u \in Threads, NEW i \in Nat1, NEW o, CallerAt(u, i, o) \/ HelperAt(u, i, o)
  PROVE  o \in made \ returned /\ i \in 1..Len(stack[u])
<1>1. i \in 1..Len(stack[u])
  BY TakesAreFrames DEF NestInv, CallerAt, HelperAt, Nat1
<1>2. TakeOK(u, i) /\ stack[u][i].offer = o
  BY <1>1 DEF NestInv, StackOK, CallerAt, HelperAt
<1> QED
  BY <1>1, <1>2 DEF TakeOK

\* almide_rt_list_par_map and almide_fan_deal begin.
LEMMA MakeOfferStep ==
  ASSUME NestInv, NEW t \in Threads, NEW o \in Offers, MakeOffer(t, o)
  PROVE  NestInv'
<1> DEFINE f == NewTake(o, FALSE, None)
<1>1. PICK n \in Nat : n = Len(stack[t])
  BY TakesAreFrames DEF NestInv
<1>2. /\ f \in Frame /\ f.offer = o /\ ~f.helper /\ f.pc = "draw" /\ f.blk = 0 /\ ~f.took
  <2>1. None \in Sinks
    BY DEF Sinks
  <2> QED
    BY <2>1, NewTakeFrame, ZenonT(30)
<1>3. /\ o \notin made /\ made' = made \cup {o} /\ published' = published \cup {o}
      /\ parent' = [parent EXCEPT ![o] = inGate[t]]
      /\ above' = [above EXCEPT ![o] = sink[t]]
      /\ Push(t, f)
      /\ UNCHANGED <<inGate, sink, returned, next, inside, done>>
  BY DEF MakeOffer
<1> HIDE DEF f
<1>4. Pushed(t, n, f)
  BY <1>1, <1>2, <1>3, PushEffect DEF NestInv
<1>5. o \notin returned /\ 0 < NBlocks[o]
  BY <1>3, FirstBlock DEF NestInv, Types
<1>6. /\ parent'[o] = inGate[t] /\ above'[o] = sink[t]
      /\ \A x \in Offers \ {o} : parent'[x] = parent[x] /\ above'[x] = above[x]
  BY <1>3 DEF NestInv, Types
<1>7. Types'
  <2>1. parent' \in [Offers -> Offers \cup {None}]
    BY <1>3 DEF NestInv, Types
  <2>2. above' \in [Offers -> Sinks]
    BY <1>3 DEF NestInv, Types
  <2>3. made' \subseteq Offers /\ returned' \subseteq made' /\ published' \subseteq made' \ returned'
    BY <1>3, <1>5 DEF NestInv, Types
  <2>4. stack' \in [Threads -> Seq(Frame)]
    BY <1>4 DEF Pushed, Others
  <2> QED
    BY <1>3, <2>1, <2>2, <2>3, <2>4 DEF NestInv, Types
<1>8. Keeps
  BY <1>3, <1>6 DEF NestInv, Types, Keeps
<1>9. stack'[t][n + 1] = f
  BY <1>4 DEF Pushed
<1>10. BaseGate(t, n + 1)' = inGate[t] /\ BaseSink(t, n + 1)' = sink[t]
  BY <1>2, <1>6, <1>9 DEF BaseGate, BaseSink
<1>11. \/ o = Outermost /\ n = 0 /\ inGate[t] = None /\ sink[t] = None
       \/ /\ o # Outermost /\ n # 0 /\ n \in 1..n
          /\ stack[t][n].pc = "run" /\ MadeIn[o] = <<stack[t][n].offer, stack[t][n].blk>>
          /\ inGate[t] = MadeIn[o][1] /\ sink[t] = MadeIn[o]
  <2>1. CASE o = Outermost
    <3>1. stack[t] = <<>> /\ Len(stack[t]) = 0
      BY <2>1, TakesAreFrames DEF MakeOffer, NestInv
    <3>2. LocalsOK(t)
      BY DEF NestInv, StackOK
    <3> QED
      BY <1>1, <2>1, <3>1, <3>2 DEF LocalsOK
  <2>2. CASE o # Outermost
    <3>1. stack[t] # <<>> /\ Top(t).pc = "run" /\ <<Top(t).offer, Top(t).blk>> = MadeIn[o]
      BY <2>2 DEF MakeOffer, TopIs
    <3>2. PICK m \in Nat \ {0} :
           /\ m = Len(stack[t]) /\ m \in 1..m /\ Top(t) = stack[t][m] /\ Top(t) \in Frame
           /\ TakeOK(t, m)
           /\ inGate[t] = IF Top(t).took /\ Top(t).pc # "wait" THEN Top(t).offer ELSE BaseGate(t, m)
           /\ sink[t] = IF Top(t).pc \in {"run", "trap"} THEN <<Top(t).offer, Top(t).blk>>
                                                          ELSE BaseSink(t, m)
      BY <3>1, TopFacts
    <3>3. m = n
      BY <1>1, <3>2
    <3>4. Top(t).took
      BY <3>1, <3>2 DEF TakeOK
    <3>5. MadeIn[o][1] = Top(t).offer
      BY <3>1
    <3>6. inGate[t] = MadeIn[o][1] /\ sink[t] = MadeIn[o]
      BY <3>1, <3>2, <3>4, <3>5
    <3> QED
      BY <2>2, <3>1, <3>2, <3>3, <3>6
  <2> QED
    BY <2>1, <2>2
<1>12. n # 0 => LinkOK(t, n)'
  <2>1. n # 0 => stack'[t][n] = stack[t][n]
    BY <1>4, <1>11 DEF Pushed
  <2> QED
    BY <1>2, <1>9, <1>11, <2>1 DEF LinkOK
<1>13. \A u \in Threads : StackOK(u)'
  <2>1. /\ f.offer \in made' \ returned' /\ f.blk < NBlocks[f.offer] /\ returned' = returned
        /\ n = 0 /\ ~f.helper => f.offer = Outermost
    BY <1>2, <1>3, <1>5, <1>11
  <2> QED
    BY <1>1, <1>2, <1>3, <1>4, <1>8, <1>10, <1>12, <2>1, PushedStacks
<1>14. MadeOK'
  <2>1. Outermost \in Offers
    BY NestAssumption
  <2>2. parent'[Outermost] = None /\ above'[Outermost] = None
    BY <1>6, <1>11, <2>1 DEF NestInv, MadeOK
  <2>3. ASSUME NEW x \in made' \ {Outermost} PROVE parent'[x] = MadeIn[x][1] /\ above'[x] = MadeIn[x]
    <3>1. CASE x = o
      BY <1>6, <1>11, <2>3, <3>1
    <3>2. CASE x # o
      BY <1>3, <1>6, <2>3, <3>2 DEF NestInv, Types, MadeOK
    <3> QED
      BY <3>1, <3>2
  <2> QED
    BY <2>2, <2>3 DEF MadeOK
<1>15. \A u \in Threads, i \in Nat1 : \A x :
         /\ CallerAt(u, i, x)' <=> (CallerAt(u, i, x) \/ (u = t /\ i = n + 1 /\ o = x))
         /\ HelperAt(u, i, x)' <=> HelperAt(u, i, x)
  BY <1>1, <1>2, <1>4, PushedRoles DEF NestInv
<1>16. CallersOK'
  <2>1. \A u \in Threads, i \in Nat1 : ~CallerAt(u, i, o)
    BY <1>3, RolesLive
  <2>2. n + 1 \in Nat1
    BY DEF Nat1
  <2>3. \A x \in made' \ returned' : \E u \in Threads, i \in Nat1 : CallerAt(u, i, x)'
    <3>1. SUFFICES ASSUME NEW x \in made' \ returned' PROVE \E u \in Threads, i \in Nat1 : CallerAt(u, i, x)'
      OBVIOUS
    <3>2. CASE x = o
      BY <1>15, <2>2, <3>2
    <3>3. CASE x # o
      <4>1. x \in made \ returned
        BY <1>3, <3>3
      <4>2. PICK u \in Threads, i \in Nat1 : CallerAt(u, i, x)
        BY <4>1 DEF NestInv, CallersOK
      <4> QED
        BY <1>15, <4>2
    <3> QED
      BY <3>2, <3>3
  <2>4. ASSUME NEW u \in Threads, NEW v \in Threads, NEW i \in Nat1, NEW j \in Nat1, NEW x \in Offers,
               CallerAt(u, i, x)', CallerAt(v, j, x)'
        PROVE  u = v /\ i = j
    <3>1. CASE x = o
      BY <1>15, <2>1, <2>4, <3>1
    <3>2. CASE x # o
      BY <1>15, <2>4, <3>2 DEF NestInv, CallersOK
    <3> QED
      BY <3>1, <3>2
  <2> QED
    BY <2>3, <2>4 DEF CallersOK
<1>17. InsideOK'
  <2>1. ASSUME NEW x \in Offers PROVE HelpersOf(x)' = HelpersOf(x)
    BY <1>15 DEF HelpersOf
  <2> QED
    BY <1>3, <2>1 DEF NestInv, InsideOK
<1> QED
  BY <1>7, <1>13, <1>14, <1>16, <1>17 DEF NestInv

\* almide_fan_steal.
LEMMA StealStep ==
  ASSUME NestInv, NEW t \in Threads, NEW o \in Offers, Steal(t, o)
  PROVE  NestInv'
<1> DEFINE f == NewTake(o, TRUE, sink[t])
<1>1. PICK n \in Nat : n = Len(stack[t])
  BY TakesAreFrames DEF NestInv
<1>2. /\ f \in Frame /\ f.offer = o /\ f.helper /\ f.pc = "draw" /\ f.blk = 0 /\ ~f.took
      /\ f.waitSink = sink[t]
  <2>1. sink[t] \in Sinks
    BY DEF NestInv, Types
  <2> QED
    BY <2>1, NewTakeFrame, ZenonT(30)
<1>3. /\ o \in published /\ Accepts(t, o)
      /\ inside' = [inside EXCEPT ![o] = inside[o] + 1]
      /\ Push(t, f)
      /\ UNCHANGED <<inGate, sink, made, returned, published, next, parent, above, done>>
  BY DEF Steal
<1> HIDE DEF f
<1>4. Pushed(t, n, f)
  BY <1>1, <1>2, <1>3, PushEffect DEF NestInv
<1>5. o \in made \ returned /\ 0 < NBlocks[o]
  BY <1>3, FirstBlock DEF NestInv, Types
<1>6. inside'[o] = inside[o] + 1 /\ \A x \in Offers \ {o} : inside'[x] = inside[x]
  BY <1>3 DEF NestInv, Types
<1>7. Types'
  <2>1. inside' \in [Offers -> Int]
    BY <1>3 DEF NestInv, Types
  <2>2. stack' \in [Threads -> Seq(Frame)]
    BY <1>4 DEF Pushed, Others
  <2> QED
    BY <1>3, <2>1, <2>2 DEF NestInv, Types
<1>8. Keeps /\ MadeOK'
  BY <1>3 DEF NestInv, MadeOK, Keeps
<1>9. stack'[t][n + 1] = f
  BY <1>4 DEF Pushed
<1>10. \/ n = 0 /\ inGate[t] = None /\ sink[t] = None
       \/ /\ n # 0 /\ n \in 1..n /\ stack[t][n].pc = "wait"
          /\ inGate[t] = parent[stack[t][n].offer] /\ sink[t] = above[stack[t][n].offer]
  <2>1. CASE stack[t] = <<>>
    <3>1. Len(stack[t]) = 0
      BY <2>1, TakesAreFrames DEF NestInv
    <3>2. LocalsOK(t)
      BY DEF NestInv, StackOK
    <3> QED
      BY <1>1, <3>1, <3>2 DEF LocalsOK
  <2>2. CASE stack[t] # <<>>
    <3>1. Top(t).pc = "wait"
      BY <1>3, <2>2 DEF Accepts, TopIs
    <3>2. PICK m \in Nat \ {0} :
           /\ m = Len(stack[t]) /\ m \in 1..m /\ Top(t) = stack[t][m] /\ Top(t) \in Frame
           /\ TakeOK(t, m)
           /\ inGate[t] = IF Top(t).took /\ Top(t).pc # "wait" THEN Top(t).offer ELSE BaseGate(t, m)
           /\ sink[t] = IF Top(t).pc \in {"run", "trap"} THEN <<Top(t).offer, Top(t).blk>>
                                                          ELSE BaseSink(t, m)
      BY <2>2, TopFacts
    <3>3. m = n /\ ~stack[t][m].helper
      BY <1>1, <3>1, <3>2 DEF TakeOK
    <3>4. inGate[t] = BaseGate(t, m) /\ sink[t] = BaseSink(t, m)
      BY <3>1, <3>2
    <3>5. inGate[t] = parent[stack[t][m].offer] /\ sink[t] = above[stack[t][m].offer]
      BY <3>3, <3>4 DEF BaseGate, BaseSink
    <3> QED
      BY <3>1, <3>2, <3>3, <3>5
  <2> QED
    BY <2>1, <2>2
<1>11. n # 0 => stack'[t][n] = stack[t][n] /\ n + 1 # 1 /\ (n + 1) - 1 = n
  BY <1>4, <1>10 DEF Pushed
<1>12. BaseGate(t, n + 1)' = inGate[t] /\ BaseSink(t, n + 1)' = sink[t]
  <2>1. CASE n = 0
    BY <1>2, <1>9, <1>10, <2>1 DEF BaseGate, BaseSink
  <2>2. CASE n # 0
    <3>1. stack'[t][(n + 1) - 1].offer = stack[t][n].offer /\ n + 1 # 1
      BY <1>11, <2>2
    <3>2. stack'[t][n + 1].helper
      BY <1>2, <1>9
    <3>3. parent' = parent /\ above' = above
      BY <1>3
    <3> QED
      BY <1>10, <2>2, <3>1, <3>2, <3>3 DEF BaseGate, BaseSink
  <2> QED
    BY <2>1, <2>2
<1>13. n # 0 => LinkOK(t, n)'
  BY <1>2, <1>9, <1>10, <1>11 DEF LinkOK
<1>14. \A u \in Threads : StackOK(u)'
  <2>1. /\ f.offer \in made' \ returned' /\ f.blk < NBlocks[f.offer] /\ returned' = returned
        /\ n = 0 /\ ~f.helper => f.offer = Outermost
    BY <1>2, <1>3, <1>5
  <2> QED
    BY <1>1, <1>2, <1>3, <1>4, <1>8, <1>12, <1>13, <2>1, PushedStacks
<1>15. \A u \in Threads, i \in Nat1 : \A x :
         /\ CallerAt(u, i, x)' <=> CallerAt(u, i, x)
         /\ HelperAt(u, i, x)' <=> (HelperAt(u, i, x) \/ (u = t /\ i = n + 1 /\ o = x))
  BY <1>1, <1>2, <1>4, PushedRoles DEF NestInv
<1>16. CallersOK'
  BY <1>3, <1>15 DEF NestInv, CallersOK
<1>17. InsideOK'
  <2>1. n + 1 \in Nat1 /\ <<t, n + 1>> \in Threads \X Nat1
    BY DEF Nat1
  <2>2. ASSUME NEW x \in Offers, x # o PROVE HelpersOf(x)' = HelpersOf(x)
    BY <1>15, <2>2 DEF HelpersOf
  <2>3. HelpersOf(o)' = HelpersOf(o) \cup {<<t, n + 1>>}
    BY <1>15, <2>1 DEF HelpersOf
  <2>4. <<t, n + 1>> \notin HelpersOf(o)
    BY <1>1 DEF HelpersOf, HelperAt
  <2>5. IsFiniteSet(HelpersOf(o)) /\ inside[o] = Cardinality(HelpersOf(o))
    BY DEF NestInv, InsideOK
  <2>6. /\ IsFiniteSet(HelpersOf(o)')
        /\ Cardinality(HelpersOf(o)') = Cardinality(HelpersOf(o)) + 1
    BY <2>3, <2>4, <2>5, FS_AddElement
  <2>7. inside'[o] = Cardinality(HelpersOf(o)')
    BY <1>6, <2>5, <2>6
  <2> QED
    BY <1>6, <2>2, <2>6, <2>7 DEF NestInv, InsideOK
<1> QED
  BY <1>7, <1>8, <1>14, <1>16, <1>17 DEF NestInv
-----------------------------------------------------------------------------
(* The steps that pop a take *)

\* The place under the top of a stack of two takes or more.
LEMMA UnderTop ==
  \A n \in Nat \ {0} : n # 1 =>
    /\ (n - 1) + 1 = n /\ n - 1 # 0 /\ n - 1 \in 1..(n - 1) /\ n - 1 \in 1..n
    /\ n - 1 # 1 => (n - 1) - 1 \in 1..(n - 1) /\ (n - 1) - 1 \in 1..n
<1> QED
  OBVIOUS

\* Without its top take a stack is right, if that take has put back what it found
\* and no take is left of an offer that returns.
LEMMA PoppedStacks ==
  ASSUME NestInv, Keeps, NEW t \in Threads, NEW n \in Nat \ {0}, Len(stack[t]) = n, Popped(t, n),
         \A u \in Threads \ {t} : inGate'[u] = inGate[u] /\ sink'[u] = sink[u],
         inGate'[t] = BaseGate(t, n), sink'[t] = BaseSink(t, n),
         \A u \in Threads : \A i \in 1..Len(stack'[u]) : stack'[u][i].offer \notin returned'
  PROVE  \A u \in Threads : StackOK(u)'
<1>1. ASSUME NEW u \in Threads, u # t PROVE StackOK(u)'
  <2>1. stack'[u] = stack[u]
    BY <1>1 DEF Popped, Others
  <2> QED
    BY <1>1, <2>1, OtherKept
<1>2. StackOK(t)'
  <2>0. StackOK(t)
    BY DEF NestInv
  <2>8. (\A i \in 1..n : TakeOK(t, i)) /\ (\A i \in 1..(n - 1) : LinkOK(t, i))
    BY <2>0 DEF StackOK
  <2>1. Len(stack'[t]) = n - 1 /\ \A i \in 1..(n - 1) : stack'[t][i] = stack[t][i]
    BY DEF Popped
  <2>2. ASSUME NEW i \in 1..(n - 1) PROVE TakeOK(t, i)'
    <3>1. i \in 1..n /\ i > 1 => i - 1 \in 1..(n - 1)
      OBVIOUS
    <3>2. i \in 1..Len(stack[t])
      OBVIOUS
    <3>3. stack[t][i].offer \notin returned'
      BY <2>1
    <3>4. i > 1 => stack'[t][i - 1].offer = stack[t][i - 1].offer
      BY <2>1, <3>1, <3>2
    <3> QED
      BY <2>1, <3>2, <3>3, <3>4, TakeKept
  <2>3. ASSUME NEW i \in 1..((n - 1) - 1) PROVE LinkOK(t, i)'
    <3>1. i \in 1..(n - 1) /\ i + 1 \in 1..(n - 1) /\ i \in 1..(Len(stack[t]) - 1)
      OBVIOUS
    <3>2. LinkOK(t, i) /\ stack'[t][i] = stack[t][i] /\ stack'[t][i + 1] = stack[t][i + 1]
      BY <2>0, <2>1, <3>1 DEF StackOK
    <3> QED
      BY <3>2 DEF LinkOK
  <2>4. stack'[t] # <<>> /\ ~stack'[t][1].helper => stack'[t][1].offer = Outermost
    <3>1. CASE n = 1
      <4>1. Len(stack'[t]) = 0 /\ stack'[t] \in Seq(Frame)
        BY <2>1, <3>1 DEF Popped, Others
      <4>2. stack'[t] = <<>>
        BY <4>1, EmptySeq
      <4> QED
        BY <4>2
    <3>2. CASE n # 1
      <4>1. 1 \in 1..(n - 1)
        BY <3>2, OneOrMore, Zenon
      <4>2. stack[t] # <<>>
        BY TakesAreFrames DEF NestInv
      <4> QED
        BY <2>0, <2>1, <4>1, <4>2 DEF StackOK
    <3> QED
      BY <3>1, <3>2
  <2>5. LocalsOK(t)'
    <3>0. n \in 1..Len(stack[t])
      OBVIOUS
    <3>1. TakeOK(t, n)
      BY <2>0, <3>0 DEF StackOK
    <3>2. CASE n = 1
      <4>1. Len(stack'[t]) = 0
        BY <2>1, <3>2
      <4>2. ~stack[t][n].helper => stack[t][n].offer = Outermost
        BY <2>0, <3>2, TakesAreFrames DEF NestInv, StackOK
      <4>3. BaseGate(t, n) = None /\ BaseSink(t, n) = None
        BY <3>2, <4>2 DEF NestInv, MadeOK, BaseGate, BaseSink
      <4> QED
        BY <4>1, <4>3 DEF LocalsOK
    <3>3. CASE n # 1
      <4> DEFINE k == n - 1
      <4>1. k + 1 = n
        BY <3>3, UnderTop, Zenon
      <4>2. k # 0 /\ k \in 1..(n - 1) /\ k \in 1..n
        BY <3>3, UnderTop, Zenon
      <4>8. k # 1 => k - 1 \in 1..(n - 1) /\ k - 1 \in 1..n
        BY <3>3, UnderTop, Zenon
      <4>9. n - 1 = k
        OBVIOUS
      <4> HIDE DEF k
      <4>3. LinkOK(t, k) /\ TakeOK(t, k)
        BY <2>8, <4>2, Zenon
      <4> DEFINE b == stack[t][k]  g == stack[t][n]
      <4>4. stack'[t][k] = b /\ Len(stack'[t]) = k /\ k # 0
        <5>1. stack'[t][k] = b
          BY <2>1, <4>2, Zenon
        <5>2. Len(stack'[t]) = k
          BY <2>1, <4>9, Zenon
        <5> QED
          BY <4>2, <5>1, <5>2
      <4>5. BaseGate(t, k)' = BaseGate(t, k) /\ BaseSink(t, k)' = BaseSink(t, k)
        <5>1. b.offer \in made
          BY <4>3 DEF TakeOK
        <5>2. k # 1 => stack'[t][k - 1] = stack[t][k - 1] /\ stack[t][k - 1].offer \in made
          BY <2>8, <2>1, <4>8 DEF TakeOK
        <5> QED
          BY <4>4, <5>1, <5>2 DEF BaseGate, BaseSink, Keeps
      <4>6. CASE g.helper
        <5>1. b.pc = "wait" /\ ~b.helper
          BY <4>1, <4>3, <4>6 DEF LinkOK, TakeOK
        <5>2. BaseGate(t, n) = parent[b.offer] /\ BaseSink(t, n) = above[b.offer]
          BY <3>3, <4>9, <4>6 DEF BaseGate, BaseSink
        <5>3. BaseGate(t, k) = parent[b.offer] /\ BaseSink(t, k) = above[b.offer]
          BY <5>1 DEF BaseGate, BaseSink
        <5> QED
          BY <4>4, <4>5, <5>1, <5>2, <5>3 DEF LocalsOK
      <4>7. CASE ~g.helper
        <5>1. b.pc = "run" /\ g.offer # Outermost /\ MadeIn[g.offer] = <<b.offer, b.blk>>
          BY <4>1, <4>3, <4>7 DEF LinkOK
        <5>2. b.took /\ g.offer \in made
          BY <3>1, <4>3, <5>1 DEF TakeOK
        <5>3. BaseGate(t, n) = b.offer /\ BaseSink(t, n) = <<b.offer, b.blk>>
          BY <4>7, <5>1, <5>2 DEF BaseGate, BaseSink, NestInv, MadeOK
        <5> QED
          BY <4>4, <5>1, <5>2, <5>3 DEF LocalsOK
      <4> QED
        BY <4>6, <4>7
    <3> QED
      BY <3>2, <3>3
  <2>6. \A i \in 1..Len(stack'[t]) : TakeOK(t, i)'
    BY <2>1, <2>2
  <2>7. \A i \in 1..(Len(stack'[t]) - 1) : LinkOK(t, i)'
    BY <2>1, <2>3
  <2> QED
    BY <2>4, <2>5, <2>6, <2>7 DEF StackOK
<1> QED
  BY <1>1, <1>2

\* The end of almide_fan_help.
LEMMA LeaveGateStep ==
  ASSUME NestInv, NEW t \in Threads, LeaveGate(t)
  PROVE  NestInv'
<1>1. stack[t] # <<>> /\ Top(t).pc = "draw" /\ Top(t).helper
  BY DEF LeaveGate, TopIs
<1>2. PICK n \in Nat \ {0} :
           /\ n = Len(stack[t]) /\ n \in 1..n /\ Top(t) = stack[t][n] /\ Top(t) \in Frame
           /\ TakeOK(t, n)
           /\ inGate[t] = IF Top(t).took /\ Top(t).pc # "wait" THEN Top(t).offer ELSE BaseGate(t, n)
           /\ sink[t] = IF Top(t).pc \in {"run", "trap"} THEN <<Top(t).offer, Top(t).blk>>
                                                          ELSE BaseSink(t, n)
  BY <1>1, TopFacts
<1> DEFINE g == Top(t)
<1>0. PICK o \in Offers : o = g.offer
  BY <1>2 DEF Frame
<1>3. /\ inGate' = [inGate EXCEPT ![t] = IF g.took THEN g.prevGate ELSE inGate[t]]
      /\ sink' = [sink EXCEPT ![t] = g.waitSink]
      /\ inside' = [inside EXCEPT ![o] = inside[o] - 1]
      /\ stack' = [stack EXCEPT ![t] = Below(t)]
      /\ UNCHANGED <<made, returned, published, next, parent, above, done>>
  BY <1>0 DEF LeaveGate, Restored
<1>4. g \in Frame /\ o \in Offers /\ g.prevGate \in Offers \cup {None} /\ g.waitSink \in Sinks
  BY <1>2 DEF Frame
<1>5. Popped(t, n)
  BY <1>1, <1>2, <1>3, PopEffect DEF NestInv
<1>6. /\ inGate'[t] = BaseGate(t, n) /\ sink'[t] = BaseSink(t, n)
      /\ \A u \in Threads \ {t} : inGate'[u] = inGate[u] /\ sink'[u] = sink[u]
  <2>1. /\ g.took => g.prevGate = BaseGate(t, n)
        /\ ~g.took => inGate[t] = BaseGate(t, n)
        /\ g.waitSink = BaseSink(t, n)
    BY <1>1, <1>2 DEF TakeOK
  <2> QED
    BY <1>3, <2>1 DEF NestInv, Types
<1>7. inside'[o] = inside[o] - 1 /\ \A x \in Offers \ {o} : inside'[x] = inside[x]
  BY <1>3, <1>4 DEF NestInv, Types
<1>8. Types'
  <2>1. inside' \in [Offers -> Int]
    BY <1>3, <1>4 DEF NestInv, Types
  <2>2. stack' \in [Threads -> Seq(Frame)]
    BY <1>5 DEF Popped, Others
  <2>3. inGate' \in [Threads -> Offers \cup {None}] /\ sink' \in [Threads -> Sinks]
    BY <1>3, <1>4 DEF NestInv, Types
  <2> QED
    BY <1>3, <2>1, <2>2, <2>3 DEF NestInv, Types
<1>9. Keeps /\ MadeOK'
  BY <1>3 DEF NestInv, MadeOK, Keeps
<1>10. ASSUME NEW u \in Threads, NEW i \in 1..Len(stack'[u]) PROVE stack'[u][i].offer \notin returned'
  <2>1. i \in 1..Len(stack[u]) /\ stack'[u][i] = stack[u][i]
    <3>1. CASE u = t
      BY <1>2, <1>5, <3>1 DEF Popped
    <3>2. CASE u # t
      BY <1>5, <3>2 DEF Popped, Others
    <3> QED
      BY <3>1, <3>2
  <2> QED
    BY <1>3, <2>1 DEF NestInv, StackOK, TakeOK
<1>11. \A u \in Threads : StackOK(u)'
  BY <1>2, <1>5, <1>6, <1>9, <1>10, PoppedStacks
<1>12. \A u \in Threads, i \in Nat1 : \A x :
         /\ CallerAt(u, i, x)' <=> CallerAt(u, i, x) /\ ~(u = t /\ i = n)
         /\ HelperAt(u, i, x)' <=> HelperAt(u, i, x) /\ ~(u = t /\ i = n)
  BY <1>2, <1>5, PoppedRoles DEF NestInv
<1>13. n \in Nat1 /\ HelperAt(t, n, o) /\ \A x : ~CallerAt(t, n, x) /\ (HelperAt(t, n, x) => x = o)
  BY <1>0, <1>1, <1>2 DEF HelperAt, CallerAt, Nat1
<1>14. CallersOK'
  <2>1. \A u \in Threads, i \in Nat1 : \A x : CallerAt(u, i, x)' <=> CallerAt(u, i, x)
    BY <1>12, <1>13
  <2> QED
    BY <1>3, <2>1 DEF NestInv, CallersOK
<1>15. InsideOK'
  <2>1. ASSUME NEW x \in Offers, x # o PROVE HelpersOf(x)' = HelpersOf(x)
    BY <1>12, <1>13, <2>1 DEF HelpersOf
  <2>2. HelpersOf(o)' = HelpersOf(o) \ {<<t, n>>}
    <3>1. ASSUME NEW u \in Threads, NEW i \in Nat1
          PROVE  <<u, i>> \in HelpersOf(o)' <=> <<u, i>> \in HelpersOf(o) /\ <<u, i>> # <<t, n>>
      BY <1>12 DEF HelpersOf
    <3>2. HelpersOf(o)' \subseteq Threads \X Nat1 /\ HelpersOf(o) \subseteq Threads \X Nat1
      BY DEF HelpersOf
    <3>3. \A x \in Threads \X Nat1 : \E u \in Threads, i \in Nat1 : x = <<u, i>>
      OBVIOUS
    <3> HIDE DEF HelpersOf
    <3> QED
      BY <3>1, <3>2, <3>3
  <2>3. <<t, n>> \in HelpersOf(o)
    BY <1>13 DEF HelpersOf
  <2>4. IsFiniteSet(HelpersOf(o)) /\ inside[o] = Cardinality(HelpersOf(o))
    BY <1>4 DEF NestInv, InsideOK
  <2>5. /\ IsFiniteSet(HelpersOf(o)')
        /\ Cardinality(HelpersOf(o)') = Cardinality(HelpersOf(o)) - 1
    BY <2>2, <2>3, <2>4, FS_RemoveElement
  <2>6. inside'[o] = Cardinality(HelpersOf(o)')
    BY <1>7, <2>4, <2>5
  <2> QED
    BY <1>7, <2>1, <2>5, <2>6 DEF NestInv, InsideOK
<1> QED
  BY <1>8, <1>9, <1>11, <1>14, <1>15 DEF NestInv

\* almide_fan_wait is over and almide_fan_deal returns: no take of the offer is
\* left, its caller was the only one and it has no helper.
LEMMA AwaitStep ==
  ASSUME NestInv, NEW t \in Threads, Await(t)
  PROVE  NestInv'
<1>1. stack[t] # <<>> /\ Top(t).pc = "wait"
  BY DEF Await, TopIs
<1>2. PICK n \in Nat \ {0} :
           /\ n = Len(stack[t]) /\ n \in 1..n /\ Top(t) = stack[t][n] /\ Top(t) \in Frame
           /\ TakeOK(t, n)
           /\ inGate[t] = IF Top(t).took /\ Top(t).pc # "wait" THEN Top(t).offer ELSE BaseGate(t, n)
           /\ sink[t] = IF Top(t).pc \in {"run", "trap"} THEN <<Top(t).offer, Top(t).blk>>
                                                          ELSE BaseSink(t, n)
  BY <1>1, TopFacts
<1> DEFINE g == Top(t)
<1>0. PICK o \in Offers : o = g.offer
  BY <1>2 DEF Frame
<1>3. /\ inside[o] = 0 /\ returned' = returned \cup {o}
      /\ stack' = [stack EXCEPT ![t] = Below(t)]
      /\ UNCHANGED <<inGate, sink, made, published, next, inside, parent, above, done>>
  BY <1>0 DEF Await
<1>4. g \in Frame /\ o \in Offers /\ ~g.helper /\ o \in made \ returned /\ o \notin published
  BY <1>0, <1>1, <1>2 DEF Frame, TakeOK
<1>5. Popped(t, n)
  BY <1>1, <1>2, <1>3, PopEffect DEF NestInv
<1>6. inGate'[t] = BaseGate(t, n) /\ sink'[t] = BaseSink(t, n)
  BY <1>1, <1>2, <1>3
<1>7. Types'
  <2>1. stack' \in [Threads -> Seq(Frame)]
    BY <1>5 DEF Popped, Others
  <2>2. returned' \subseteq made' /\ published' \subseteq made' \ returned'
    BY <1>3, <1>4 DEF NestInv, Types
  <2> QED
    BY <1>3, <2>1, <2>2 DEF NestInv, Types
<1>8. Keeps /\ MadeOK'
  BY <1>3 DEF NestInv, MadeOK, Keeps
<1>9. n \in Nat1 /\ CallerAt(t, n, o) /\ \A x : ~HelperAt(t, n, x) /\ (CallerAt(t, n, x) => x = o)
  BY <1>0, <1>2, <1>4 DEF HelperAt, CallerAt, Nat1
<1>10. \A u \in Threads, i \in Nat1 : \A x :
         /\ CallerAt(u, i, x)' <=> CallerAt(u, i, x) /\ ~(u = t /\ i = n)
         /\ HelperAt(u, i, x)' <=> HelperAt(u, i, x) /\ ~(u = t /\ i = n)
  BY <1>2, <1>5, PoppedRoles DEF NestInv
<1>11. HelpersOf(o) = {}
  <2>1. IsFiniteSet(HelpersOf(o)) /\ Cardinality(HelpersOf(o)) = 0
    BY <1>3, <1>4 DEF NestInv, InsideOK
  <2> QED
    BY <2>1, FS_EmptySet
<1>12. \A u \in Threads, i \in Nat1 : ~HelperAt(u, i, o) /\ (CallerAt(u, i, o) => u = t /\ i = n)
  <2>1. \A u \in Threads, i \in Nat1 : ~HelperAt(u, i, o)
    <3>1. ASSUME NEW u \in Threads, NEW i \in Nat1, HelperAt(u, i, o) PROVE FALSE
      <4>1. <<u, i>> \in HelpersOf(o)
        BY <3>1 DEF HelpersOf
      <4> QED
        BY <1>11, <4>1
    <3> QED
      BY <3>1
  <2>2. \A u \in Threads, i \in Nat1 : CallerAt(u, i, o) => u = t /\ i = n
    BY <1>4, <1>9 DEF NestInv, CallersOK
  <2> QED
    BY <2>1, <2>2
<1>13. ASSUME NEW u \in Threads, NEW i \in 1..Len(stack'[u]) PROVE stack'[u][i].offer \notin returned'
  <2>1. i \in 1..Len(stack[u]) /\ stack'[u][i] = stack[u][i] /\ ~(u = t /\ i = n)
    <3>1. CASE u = t
      BY <1>2, <1>5, <3>1 DEF Popped
    <3>2. CASE u # t
      BY <1>5, <3>2 DEF Popped, Others
    <3> QED
      BY <3>1, <3>2
  <2>2. stack[u][i].offer \notin returned
    BY <2>1 DEF NestInv, StackOK, TakeOK
  <2>3. i \in Nat1 /\ i <= Len(stack[u])
    <3>1. Len(stack[u]) \in Nat
      BY TakesAreFrames DEF NestInv
    <3> QED
      BY <2>1, <3>1 DEF Nat1
  <2>4. stack[u][i].offer # o
    BY <1>12, <2>1, <2>3 DEF CallerAt, HelperAt
  <2> QED
    BY <1>3, <2>1, <2>2, <2>4
<1>14. \A u \in Threads : StackOK(u)'
  BY <1>2, <1>3, <1>5, <1>6, <1>8, <1>13, PoppedStacks
<1>15. CallersOK'
  <2>1. \A u \in Threads, i \in Nat1 : \A x : x # o => (CallerAt(u, i, x)' <=> CallerAt(u, i, x))
    BY <1>9, <1>10
  <2>2. \A u \in Threads, i \in Nat1 : ~CallerAt(u, i, o)'
    BY <1>10, <1>12
  <2>3. \A x \in made' \ returned' : \E u \in Threads, i \in Nat1 : CallerAt(u, i, x)'
    <3>1. SUFFICES ASSUME NEW x \in made' \ returned' PROVE \E u \in Threads, i \in Nat1 : CallerAt(u, i, x)'
      OBVIOUS
    <3>2. x \in made \ returned /\ x # o
      BY <1>3
    <3>3. PICK u \in Threads, i \in Nat1 : CallerAt(u, i, x)
      BY <3>2 DEF NestInv, CallersOK
    <3> QED
      BY <2>1, <3>2, <3>3
  <2>4. ASSUME NEW u \in Threads, NEW v \in Threads, NEW i \in Nat1, NEW j \in Nat1, NEW x \in Offers,
               CallerAt(u, i, x)', CallerAt(v, j, x)'
        PROVE  u = v /\ i = j
    BY <2>1, <2>2, <2>4 DEF NestInv, CallersOK
  <2> QED
    BY <2>3, <2>4 DEF CallersOK
<1>16. InsideOK'
  <2>1. ASSUME NEW x \in Offers PROVE HelpersOf(x)' = HelpersOf(x)
    BY <1>9, <1>10 DEF HelpersOf
  <2> QED
    BY <1>3, <2>1 DEF NestInv, InsideOK
<1> QED
  BY <1>7, <1>8, <1>14, <1>15, <1>16 DEF NestInv
-----------------------------------------------------------------------------
(* The invariant holds *)

\* It holds when nothing has been made.
LEMMA NestInit == Init => NestInv
<1> SUFFICES ASSUME Init PROVE NestInv
  OBVIOUS
<1>0. None \in Sinks /\ 0 \in Nat /\ Outermost \in Offers
  BY NestAssumption DEF Sinks
<1>1. /\ stack = [t \in Threads |-> <<>>] /\ inGate = [t \in Threads |-> None]
      /\ sink = [t \in Threads |-> None] /\ made = {} /\ returned = {} /\ published = {}
      /\ next = [o \in Offers |-> 0] /\ inside = [o \in Offers |-> 0]
      /\ parent = [o \in Offers |-> None] /\ above = [o \in Offers |-> None]
      /\ done = [o \in Offers |-> {}]
  BY DEF Init
<1>2. \A t \in Threads : stack[t] = <<>> /\ Len(stack[t]) = 0
  BY <1>1, EmptySeq
<1>3. Types
  <2>1. <<>> \in Seq(Frame)
    BY EmptySeq
  <2>2. stack \in [Threads -> Seq(Frame)]
    BY <1>1, <2>1
  <2>3. /\ inGate \in [Threads -> Offers \cup {None}] /\ sink \in [Threads -> Sinks]
        /\ parent \in [Offers -> Offers \cup {None}] /\ above \in [Offers -> Sinks]
    BY <1>0, <1>1
  <2>4. /\ next \in [Offers -> Nat] /\ inside \in [Offers -> Int] /\ done \in [Offers -> SUBSET Nat]
    BY <1>1
  <2>5. \A o \in Offers : next[o] <= NBlocks[o] /\ done[o] \subseteq 0..(NBlocks[o] - 1)
    BY <1>1, FirstBlock
  <2> QED
    BY <1>1, <2>2, <2>3, <2>4, <2>5 DEF Types
<1>4. ASSUME NEW t \in Threads PROVE StackOK(t)
  <2>1. inGate[t] = None /\ sink[t] = None
    BY <1>1
  <2>2. \A i \in 1..Len(stack[t]) : FALSE
    BY <1>2
  <2>3. \A i \in 1..(Len(stack[t]) - 1) : FALSE
    BY <1>2
  <2>4. LocalsOK(t)
    BY <1>2, <2>1 DEF LocalsOK
  <2> QED
    BY <1>2, <2>2, <2>3, <2>4 DEF StackOK
<1>5. MadeOK
  BY <1>0, <1>1 DEF MadeOK
<1>6. \A t \in Threads, i \in Nat1 : \A o : ~CallerAt(t, i, o) /\ ~HelperAt(t, i, o)
  BY <1>2 DEF CallerAt, HelperAt, Nat1
<1>7. CallersOK
  BY <1>1, <1>6 DEF CallersOK
<1>8. InsideOK
  <2>1. ASSUME NEW o \in Offers PROVE HelpersOf(o) = {}
    BY <1>6 DEF HelpersOf
  <2>2. IsFiniteSet({}) /\ Cardinality({}) = 0
    BY FS_EmptySet
  <2>3. \A o \in Offers : inside[o] = 0
    BY <1>1
  <2> QED
    BY <2>1, <2>2, <2>3 DEF InsideOK
<1> QED
  BY <1>3, <1>4, <1>5, <1>7, <1>8 DEF NestInv

\* Every step keeps it.
LEMMA NestNext == NestInv /\ [Next]_vars => NestInv'
<1> SUFFICES ASSUME NestInv, [Next]_vars PROVE NestInv'
  OBVIOUS
<1>1. CASE UNCHANGED vars
  BY <1>1, NothingMoved DEF vars
<1>2. CASE Next
  <2>1. PICK t \in Threads : Step(t)
    BY <1>2 DEF Next
  <2>2. CASE \E o \in Offers : MakeOffer(t, o) \/ Steal(t, o)
    BY <2>2, MakeOfferStep, StealStep
  <2>3. CASE Draw(t) \/ EndBlock(t) \/ WithdrawAndWait(t)
    BY <2>3, DrawStep, EndBlockStep, WithdrawStep
  <2>4. CASE LeaveGate(t) \/ Await(t)
    BY <2>4, LeaveGateStep, AwaitStep
  <2>5. CASE Trap(t) \/ TrapUp(t)
    BY <2>5, TrapStep, TrapUpStep
  <2>6. CASE Exit(t)
    BY <2>6, NothingMoved DEF Exit
  <2> QED
    BY <2>1, <2>2, <2>3, <2>4, <2>5, <2>6 DEF Step
<1> QED
  BY <1>1, <1>2

\* The stacks, the thread-locals, the tree and the counts are right together, in
\* every state, for every tree of offers and any number of threads.
THEOREM NestInvariant == Spec => []NestInv
<1> QED
  BY NestInit, NestNext, PTL DEF Spec

\* The caller of an offer other than the outermost one stands on a take of the
\* block that makes it, which is live.
LEMMA ParentTake ==
  ASSUME NestInv, NEW o \in made \ returned, o # Outermost
  PROVE  parent[o] = MadeIn[o][1] /\ parent[o] \in made \ returned
<1>1. parent[o] = MadeIn[o][1]
  BY DEF NestInv, MadeOK
<1>2. PICK t \in Threads, i \in Nat1 : CallerAt(t, i, o)
  BY DEF NestInv, CallersOK
<1>3. i \in 1..Len(stack[t]) /\ stack[t] # <<>> /\ Len(stack[t]) \in Nat
  <2>1. i \in 1..Len(stack[t])
    BY <1>2, RolesLive
  <2> QED
    BY <2>1, TakesAreFrames DEF NestInv
<1>4. StackOK(t) /\ ~stack[t][i].helper /\ stack[t][i].offer = o
  BY <1>2 DEF NestInv, CallerAt
<1>5. i # 1
  BY <1>3, <1>4 DEF StackOK
<1>6. i - 1 \in 1..(Len(stack[t]) - 1) /\ i - 1 \in 1..Len(stack[t]) /\ (i - 1) + 1 = i
  BY <1>3, <1>5
<1>7. LinkOK(t, i - 1) /\ TakeOK(t, i - 1)
  BY <1>4, <1>6 DEF StackOK
<1>8. MadeIn[o] = <<stack[t][i - 1].offer, stack[t][i - 1].blk>>
  BY <1>4, <1>6, <1>7 DEF LinkOK
<1> QED
  BY <1>1, <1>7, <1>8 DEF TakeOK

\* A gate that can still be read has a parent that can: "It outlives this one: the
\* block does not end before this offer returns" (AlmideFanGate.parent).
THEOREM ParentsAreLive == Spec => []ParentsLive
<1>1. NestInv => ParentsLive
  <2> SUFFICES ASSUME NestInv PROVE ParentsLive
    OBVIOUS
  <2>1. ASSUME NEW o \in made \ returned, parent[o] # None PROVE parent[o] \in made \ returned
    <3>1. o # Outermost
      BY <2>1 DEF NestInv, MadeOK
    <3> QED
      BY <3>1, ParentTake
  <2>2. ASSUME NEW t \in Threads, NEW i \in 1..Len(stack[t])
        PROVE  /\ stack[t][i].offer \in made \ returned
               /\ stack[t][i].pc \in {"draw", "run", "wait", "trap"}
               /\ stack[t][i].blk \in 0..(NBlocks[stack[t][i].offer] - 1)
    <3>1. TakeOK(t, i) /\ stack[t][i] \in Frame
      BY TakesAreFrames DEF NestInv, StackOK
    <3>2. /\ stack[t][i].blk \in Nat /\ stack[t][i].pc \in {"draw", "run", "wait", "trap"}
          /\ stack[t][i].offer \in Offers
      BY <3>1 DEF Frame
    <3>3. NBlocks[stack[t][i].offer] \in Nat
      BY <3>2, FirstBlock
    <3>4. stack[t][i].offer \in made \ returned /\ stack[t][i].blk < NBlocks[stack[t][i].offer]
      BY <3>1 DEF TakeOK
    <3> QED
      BY <3>2, <3>3, <3>4
  <2>3. ASSUME NEW o \in Offers PROVE next[o] \in 0..NBlocks[o] /\ inside[o] \in Nat
    <3>1. inside[o] \in Nat
      BY FS_CardinalityType DEF NestInv, InsideOK
    <3>2. next[o] \in Nat /\ next[o] <= NBlocks[o] /\ NBlocks[o] \in Nat
      BY FirstBlock DEF NestInv, Types
    <3> QED
      BY <3>1, <3>2
  <2>4. TypeOK
    BY <2>2, <2>3 DEF NestInv, Types, TypeOK
  <2> QED
    BY <2>1, <2>4 DEF ParentsLive
<1> QED
  BY <1>1, NestInvariant, PTL

\* The sink and the gate of a thread are those of the block its body is in, and
\* every offer joined the tree where the program makes it.
THEOREM LocalsAreTheBlocks == Spec => []LocalsFollowBlock
<1>1. NestInv => LocalsFollowBlock
  <2> SUFFICES ASSUME NestInv, NEW t \in Threads, NEW i \in 1..Len(stack[t])
               PROVE  /\ i = Len(stack[t]) /\ stack[t][i].pc = "run" =>
                           sink[t] = <<stack[t][i].offer, stack[t][i].blk>> /\ inGate[t] = stack[t][i].offer
                      /\ MadeIn[stack[t][i].offer] # None =>
                           /\ above[stack[t][i].offer] = MadeIn[stack[t][i].offer]
                           /\ parent[stack[t][i].offer] = MadeIn[stack[t][i].offer][1]
    BY DEF LocalsFollowBlock
  <2>1. TakeOK(t, i)
    BY DEF NestInv, StackOK
  <2>2. ASSUME MadeIn[stack[t][i].offer] # None
        PROVE  /\ above[stack[t][i].offer] = MadeIn[stack[t][i].offer]
               /\ parent[stack[t][i].offer] = MadeIn[stack[t][i].offer][1]
    <3>1. stack[t][i].offer \in made /\ stack[t][i].offer # Outermost
      BY <2>1, <2>2, NestAssumption DEF TakeOK
    <3> QED
      BY <3>1 DEF NestInv, MadeOK
  <2>3. ASSUME i = Len(stack[t]), stack[t][i].pc = "run"
        PROVE  sink[t] = <<stack[t][i].offer, stack[t][i].blk>> /\ inGate[t] = stack[t][i].offer
    <3>1. stack[t] # <<>>
      BY TakesAreFrames DEF NestInv
    <3>2. Top(t) = stack[t][i]
      BY <2>3 DEF Top
    <3>3. stack[t][i].took
      BY <2>1, <2>3 DEF TakeOK
    <3> QED
      BY <2>3, <3>1, <3>2, <3>3, TopFacts
  <2> QED
    BY <2>2, <2>3
<1> QED
  BY <1>1, NestInvariant, PTL
-----------------------------------------------------------------------------
(* Nobody waits in a circle where nothing has trapped *)

\* The numbers still fit when no take has come on top of another.
LEMMA NumbersKept ==
  ASSUME NEW ord, Numbers(ord),
         \A u \in Threads : \A i \in 1..Len(stack'[u]) :
           /\ i \in 1..Len(stack[u])
           /\ stack'[u][i].offer = stack[u][i].offer /\ stack'[u][i].helper = stack[u][i].helper
  PROVE  Numbers(ord)'
<1> SUFFICES ASSUME NEW u \in Threads, NEW i \in 1..Len(stack'[u]), NEW j \in 1..Len(stack'[u]),
                    i < j, ~stack'[u][j].helper
             PROVE  ord[stack'[u][i].offer] < ord[stack'[u][j].offer]
  BY DEF Numbers
<1>1. /\ i \in 1..Len(stack[u]) /\ j \in 1..Len(stack[u]) /\ ~stack[u][j].helper
      /\ stack'[u][i].offer = stack[u][i].offer /\ stack'[u][j].offer = stack[u][j].offer
  OBVIOUS
<1>2. ord[stack[u][i].offer] < ord[stack[u][j].offer]
  BY <1>1 DEF Numbers
<1> QED
  BY <1>1, <1>2

\* A thread that changes its top take, or leaves it, or does not move.
LEMMA QuietOrder ==
  ASSUME NestInv, OrderInv, made' = made, NEW t \in Threads, NEW n \in Nat \ {0}, Len(stack[t]) = n,
         (\E f \in Frame : Topped(t, n, f)) \/ Popped(t, n)
  PROVE  OrderInv'
<1>1. ASSUME NEW u \in Threads, NEW i \in 1..Len(stack'[u])
      PROVE  /\ i \in 1..Len(stack[u])
             /\ stack'[u][i].offer = stack[u][i].offer /\ stack'[u][i].helper = stack[u][i].helper
  <2>1. CASE u # t
    BY <2>1 DEF Topped, Popped, Others
  <2>2. CASE u = t /\ Popped(t, n)
    BY <2>2 DEF Popped
  <2>3. CASE u = t /\ \E f \in Frame : Topped(t, n, f)
    <3>1. i \in 1..n
      BY <2>3 DEF Topped
    <3>2. i = n \/ i \in 1..(n - 1)
      BY <3>1
    <3> QED
      BY <2>3, <3>1, <3>2 DEF Topped
  <2> QED
    BY <2>1, <2>2, <2>3
<1>2. PICK ord \in [Offers -> Nat] : Numbers(ord) /\ Counted(ord)
  BY DEF OrderInv
<1>3. Numbers(ord)'
  BY <1>1, <1>2, NumbersKept
<1>4. Counted(ord)'
  BY <1>2 DEF Counted
<1> QED
  BY <1>2, <1>3, <1>4 DEF OrderInv

\* A new helper's take is under no caller.
LEMMA StealOrder ==
  ASSUME NestInv, OrderInv, NEW t \in Threads, NEW o \in Offers, Steal(t, o)
  PROVE  OrderInv'
<1> DEFINE f == NewTake(o, TRUE, sink[t])
<1>1. PICK n \in Nat : n = Len(stack[t])
  BY TakesAreFrames DEF NestInv
<1>2. f \in Frame /\ f.helper
  <2>1. sink[t] \in Sinks
    BY DEF NestInv, Types
  <2> QED
    BY <2>1, NewTakeFrame, ZenonT(30)
<1>3. Push(t, f) /\ made' = made
  BY DEF Steal
<1> HIDE DEF f
<1>4. Pushed(t, n, f)
  BY <1>1, <1>2, <1>3, PushEffect DEF NestInv
<1>5. PICK ord \in [Offers -> Nat] : Numbers(ord) /\ Counted(ord)
  BY DEF OrderInv
<1>6. Numbers(ord)'
  <2> SUFFICES ASSUME NEW u \in Threads, NEW i \in 1..Len(stack'[u]), NEW j \in 1..Len(stack'[u]),
                      i < j, ~stack'[u][j].helper
               PROVE  ord[stack'[u][i].offer] < ord[stack'[u][j].offer]
    BY DEF Numbers
  <2>1. /\ i \in 1..Len(stack[u]) /\ j \in 1..Len(stack[u])
        /\ stack'[u][i] = stack[u][i] /\ stack'[u][j] = stack[u][j]
    <3>1. CASE u # t
      BY <1>4, <3>1 DEF Pushed, Others
    <3>2. CASE u = t
      <4>1. i \in 1..(n + 1) /\ j \in 1..(n + 1)
        BY <1>4, <3>2 DEF Pushed
      <4>2. j # n + 1
        BY <1>2, <1>4, <3>2 DEF Pushed
      <4>3. i \in 1..n /\ j \in 1..n
        BY <4>1, <4>2
      <4> QED
        BY <1>1, <1>4, <3>2, <4>3 DEF Pushed
    <3> QED
      BY <3>1, <3>2
  <2>2. ord[stack[u][i].offer] < ord[stack[u][j].offer]
    BY <1>5, <2>1 DEF Numbers
  <2> QED
    BY <2>1, <2>2
<1>7. Counted(ord)'
  BY <1>3, <1>5 DEF Counted
<1> QED
  BY <1>5, <1>6, <1>7 DEF OrderInv

\* A new offer gets the next number.
LEMMA MakeOrder ==
  ASSUME NestInv, OrderInv, NEW t \in Threads, NEW o \in Offers, MakeOffer(t, o)
  PROVE  OrderInv'
<1> DEFINE f == NewTake(o, FALSE, None)
<1>1. PICK n \in Nat : n = Len(stack[t])
  BY TakesAreFrames DEF NestInv
<1>2. f \in Frame /\ f.offer = o
  <2>1. None \in Sinks
    BY DEF Sinks
  <2> QED
    BY <2>1, NewTakeFrame, ZenonT(30)
<1>3. Push(t, f) /\ o \notin made /\ made' = made \cup {o}
  BY DEF MakeOffer
<1> HIDE DEF f
<1>4. Pushed(t, n, f)
  BY <1>1, <1>2, <1>3, PushEffect DEF NestInv
<1>5. PICK ord \in [Offers -> Nat] : Numbers(ord) /\ Counted(ord)
  BY DEF OrderInv
<1>6. PICK c \in Nat : c = Cardinality(made) /\ Cardinality(made') = c + 1
  <2>1. IsFiniteSet(made)
    BY NestAssumption, FS_Subset DEF NestInv, Types
  <2>2. Cardinality(made) \in Nat /\ Cardinality(made \cup {o}) = Cardinality(made) + 1
    BY <1>3, <2>1, FS_AddElement, FS_CardinalityType
  <2> QED
    BY <1>3, <2>2
<1> DEFINE new == [ord EXCEPT ![o] = c]
<1>7. new \in [Offers -> Nat] /\ new[o] = c /\ \A x \in Offers \ {o} : new[x] = ord[x]
  BY <1>5, <1>6
<1> HIDE DEF new
<1>8. \A x \in made : ord[x] \in Nat /\ ord[x] < c /\ new[x] = ord[x]
  BY <1>3, <1>5, <1>6, <1>7 DEF Counted, NestInv, Types
<1>9. \A u \in Threads : \A i \in 1..Len(stack[u]) : stack[u][i].offer \in made
  BY DEF NestInv, StackOK, TakeOK
<1>10. Numbers(new)'
  <2> SUFFICES ASSUME NEW u \in Threads, NEW i \in 1..Len(stack'[u]), NEW j \in 1..Len(stack'[u]),
                      i < j, ~stack'[u][j].helper
               PROVE  new[stack'[u][i].offer] < new[stack'[u][j].offer]
    BY DEF Numbers
  <2>1. CASE u # t \/ j # n + 1
    <3>1. /\ i \in 1..Len(stack[u]) /\ j \in 1..Len(stack[u])
          /\ stack'[u][i] = stack[u][i] /\ stack'[u][j] = stack[u][j]
      <4>1. CASE u # t
        BY <1>4, <4>1 DEF Pushed, Others
      <4>2. CASE u = t
        <5>1. i \in 1..(n + 1) /\ j \in 1..(n + 1)
          BY <1>4, <4>2 DEF Pushed
        <5>2. i \in 1..n /\ j \in 1..n
          BY <2>1, <4>2, <5>1
        <5> QED
          BY <1>1, <1>4, <4>2, <5>2 DEF Pushed
      <4> QED
        BY <4>1, <4>2
    <3>2. ord[stack[u][i].offer] < ord[stack[u][j].offer]
      BY <1>5, <3>1 DEF Numbers
    <3> QED
      BY <1>8, <1>9, <3>1, <3>2
  <2>2. CASE u = t /\ j = n + 1
    <3>1. i \in 1..(n + 1)
      BY <1>4, <2>2 DEF Pushed
    <3>2. i \in 1..n
      BY <2>2, <3>1
    <3>3. stack'[u][i] = stack[u][i] /\ stack'[u][j].offer = o /\ i \in 1..Len(stack[u])
      BY <1>1, <1>2, <1>4, <2>2, <3>2 DEF Pushed
    <3> QED
      BY <1>7, <1>8, <1>9, <3>3
  <2> QED
    BY <2>1, <2>2
<1>11. Counted(new)'
  <2>1. ASSUME NEW x \in made' PROVE new[x] < Cardinality(made')
    BY <1>3, <1>6, <1>7, <1>8
  <2> QED
    BY <2>1 DEF Counted
<1> QED
  BY <1>7, <1>10, <1>11 DEF OrderInv

\* No offer is made before the outermost one.
LEMMA OrderInit == Init => OrderInv
<1> SUFFICES ASSUME Init PROVE OrderInv
  OBVIOUS
<1> DEFINE ord == [o \in Offers |-> 0]
<1>1. ord \in [Offers -> Nat]
  OBVIOUS
<1>2. \A t \in Threads : Len(stack[t]) = 0
  BY EmptySeq DEF Init
<1> HIDE DEF ord
<1>3. Numbers(ord)
  BY <1>2 DEF Numbers
<1>4. Counted(ord)
  BY DEF Init, Counted
<1> QED
  BY <1>1, <1>3, <1>4 DEF OrderInv

\* The steps that change the top take and make no offer.
LEMMA ToppedActions ==
  ASSUME NestInv, NEW t \in Threads,
         Draw(t) \/ EndBlock(t) \/ WithdrawAndWait(t) \/ Trap(t) \/ TrapUp(t)
  PROVE  stack[t] # <<>> /\ made' = made /\ \E f \in Frame : Topped(t, Len(stack[t]), f)
<1> DEFINE g == Top(t)
<1>1. stack[t] # <<>>
  BY DEF Draw, EndBlock, WithdrawAndWait, Trap, TrapUp, BodyOver, TopIs
<1>2. g \in Frame
  BY <1>1, TakesAreFrames DEF NestInv
<1>3. /\ g.offer \in Offers /\ inGate[t] \in Offers \cup {None} /\ sink[t] \in Sinks
      /\ next[g.offer] \in Nat
  BY <1>2 DEF NestInv, Types, Frame
<1>4. made' = made
  BY DEF Draw, EndBlock, WithdrawAndWait, Trap, TrapUp, offerVars
<1>5. ASSUME NEW f \in Frame, SetTop(t, f), f.offer = g.offer, f.helper = g.helper
      PROVE  \E x \in Frame : Topped(t, Len(stack[t]), x)
  BY <1>1, <1>5, TopEffect DEF NestInv
<1>6. CASE Draw(t)
  <2> DEFINE f == [g EXCEPT !.pc = "run", !.blk = next[g.offer], !.took = TRUE, !.prevSink = sink[t],
                            !.prevGate = IF g.took THEN @ ELSE inGate[t]]
  <2>1. f \in Frame /\ f.offer = g.offer /\ f.helper = g.helper
    BY <1>2, <1>3 DEF Frame
  <2>2. SetTop(t, f)
    BY <1>6 DEF Draw
  <2> HIDE DEF f
  <2> QED
    BY <1>1, <1>4, <1>5, <2>1, <2>2
<1>7. CASE EndBlock(t)
  <2> DEFINE f == [g EXCEPT !.pc = "draw"]
  <2>1. f \in Frame /\ f.offer = g.offer /\ f.helper = g.helper
    BY <1>2 DEF Frame
  <2>2. SetTop(t, f)
    BY <1>7 DEF EndBlock
  <2> HIDE DEF f
  <2> QED
    BY <1>1, <1>4, <1>5, <2>1, <2>2
<1>8. CASE WithdrawAndWait(t)
  <2> DEFINE f == [g EXCEPT !.pc = "wait"]
  <2>1. f \in Frame /\ f.offer = g.offer /\ f.helper = g.helper
    BY <1>2 DEF Frame
  <2>2. SetTop(t, f)
    BY <1>8 DEF WithdrawAndWait
  <2> HIDE DEF f
  <2> QED
    BY <1>1, <1>4, <1>5, <2>1, <2>2
<1>9. CASE Trap(t)
  <2> DEFINE f == [g EXCEPT !.pc = "trap", !.level = sink[t]]
  <2>1. f \in Frame /\ f.offer = g.offer /\ f.helper = g.helper
    BY <1>2, <1>3 DEF Frame
  <2>2. SetTop(t, f)
    BY <1>9 DEF Trap
  <2> HIDE DEF f
  <2> QED
    BY <1>1, <1>4, <1>5, <2>1, <2>2
<1>10. CASE TrapUp(t)
  <2> DEFINE f == [g EXCEPT !.level = above[g.level[1]]]
  <2>1. above[g.level[1]] \in Sinks
    <3>1. g.level # None /\ g.level \in Sinks
      BY <1>2, <1>10 DEF TrapUp, Frame
    <3>2. g.level[1] \in Offers
      BY <3>1 DEF Sinks
    <3> QED
      BY <3>2 DEF NestInv, Types
  <2>2. f \in Frame /\ f.offer = g.offer /\ f.helper = g.helper
    BY <1>2, <2>1 DEF Frame
  <2>3. SetTop(t, f)
    BY <1>10 DEF TrapUp
  <2> HIDE DEF f
  <2> QED
    BY <1>1, <1>4, <1>5, <2>2, <2>3
<1> QED
  BY <1>6, <1>7, <1>8, <1>9, <1>10

\* Every step keeps the numbering.
LEMMA OrderNext == NestInv /\ OrderInv /\ [Next]_vars => OrderInv'
<1> SUFFICES ASSUME NestInv, OrderInv, [Next]_vars PROVE OrderInv'
  OBVIOUS
<1>0. ASSUME UNCHANGED <<stack, made>> PROVE OrderInv'
  BY <1>0 DEF OrderInv, Numbers, Counted
<1>1. CASE UNCHANGED vars
  BY <1>0, <1>1 DEF vars, offerVars
<1>2. CASE Next
  <2>1. PICK t \in Threads : Step(t)
    BY <1>2 DEF Next
  <2>2. CASE \E o \in Offers : MakeOffer(t, o) \/ Steal(t, o)
    BY <2>2, MakeOrder, StealOrder
  <2>3. ASSUME stack[t] # <<>> PROVE Len(stack[t]) \in Nat \ {0}
    BY <2>3, TakesAreFrames DEF NestInv
  <2>4. CASE Draw(t) \/ EndBlock(t) \/ WithdrawAndWait(t) \/ Trap(t) \/ TrapUp(t)
    <3>1. stack[t] # <<>> /\ made' = made /\ \E f \in Frame : Topped(t, Len(stack[t]), f)
      BY <2>4, ToppedActions
    <3>2. PICK n \in Nat \ {0} : n = Len(stack[t])
      BY <2>3, <3>1
    <3> QED
      BY <3>1, <3>2, QuietOrder
  <2>5. CASE LeaveGate(t) \/ Await(t)
    <3>1. stack[t] # <<>> /\ made' = made /\ stack' = [stack EXCEPT ![t] = Below(t)]
      BY <2>5 DEF LeaveGate, Await, TopIs
    <3>2. PICK n \in Nat \ {0} : n = Len(stack[t])
      BY <2>3, <3>1
    <3>3. Popped(t, n)
      BY <3>1, <3>2, PopEffect DEF NestInv
    <3> QED
      BY <3>1, <3>2, <3>3, QuietOrder
  <2>6. CASE Exit(t)
    BY <1>0, <2>6 DEF Exit, offerVars
  <2> QED
    BY <2>1, <2>2, <2>4, <2>5, <2>6 DEF Step
<1> QED
  BY <1>1, <1>2

\* A nonempty set of naturals has a least element.
LEMMA LeastNumber ==
  ASSUME NEW T \in SUBSET Nat, T # {}
  PROVE  \E x \in T : \A y \in T : x <= y
<1> DEFINE R == {ss \in Nat \X Nat : ss[1] < ss[2]}
<1>1. IsWellFoundedOn(R, Nat)
  BY NatLessThanWellFounded DEF OpToRel
<1>2. \A x, y \in Nat : <<x, y>> \notin R => y <= x
  OBVIOUS
<1> HIDE DEF R
<1>3. \E x \in T : \A y \in T : <<y, x>> \notin R
  BY <1>1, WFMin
<1> QED
  BY <1>2, <1>3

\* Of threads that all wait, the one whose offer was made last waits for none: a
\* thread that helps that offer and waits has its own, later offer on top.
LEMMA LastMadeMoves ==
  ASSUME NestInv, OrderInv, NEW S \in SUBSET Threads, S # {}, \A t \in S : TopIs(t, {"wait"})
  PROVE  \E t \in S : \A u \in S : ~WaitsFor(t, u)
<1>1. PICK ord \in [Offers -> Nat] : Numbers(ord) /\ Counted(ord)
  BY DEF OrderInv
<1>2. ASSUME NEW t \in S
      PROVE  /\ stack[t] # <<>> /\ Top(t).pc = "wait" /\ ~Top(t).helper /\ Top(t).offer \in made
             /\ \E n \in Nat \ {0} : n = Len(stack[t]) /\ n \in 1..n /\ Top(t) = stack[t][n]
  <2>1. stack[t] # <<>> /\ Top(t).pc = "wait"
    BY DEF TopIs
  <2> QED
    BY <2>1, TopFacts DEF TakeOK
<1>3. PICK c \in Nat : c = Cardinality(made)
  BY NestAssumption, FS_Subset, FS_CardinalityType DEF NestInv, Types
<1> DEFINE Key(t) == c - ord[Top(t).offer]
<1>4. \A t \in S : ord[Top(t).offer] \in Nat /\ Key(t) \in Nat
  BY <1>1, <1>2, <1>3 DEF Counted, NestInv, Types
<1>5. PICK t \in S : \A u \in S : Key(t) <= Key(u)
  <2> DEFINE T == {Key(t) : t \in S}
  <2>1. T \in SUBSET Nat /\ T # {}
    BY <1>4
  <2>2. PICK x \in T : \A y \in T : x <= y
    BY <2>1, LeastNumber
  <2> QED
    BY <2>2
<1>6. ASSUME NEW u \in S, WaitsFor(t, u) PROVE FALSE
  <2>1. ~TopIs(t, {"trap"})
    BY <1>2 DEF TopIs
  <2>2. PICK i \in 1..Len(stack[u]) : stack[u][i].helper /\ stack[u][i].offer = Top(t).offer
    BY <1>6, <2>1 DEF WaitsFor
  <2>3. PICK n \in Nat \ {0} : n = Len(stack[u]) /\ n \in 1..n /\ Top(u) = stack[u][n]
    BY <1>2
  <2>4. ~stack[u][n].helper
    BY <1>2, <2>3
  <2>5. i # n
    BY <2>2, <2>4
  <2>6. i \in 1..n /\ n \in 1..Len(stack[u])
    BY <2>2, <2>3
  <2>7. i < n
    BY <2>5, <2>6
  <2>8. ord[stack[u][i].offer] < ord[stack[u][n].offer]
    BY <1>1, <2>2, <2>4, <2>6, <2>7 DEF Numbers
  <2>9. ord[Top(t).offer] < ord[Top(u).offer]
    BY <2>2, <2>3, <2>8
  <2>10. Key(t) <= Key(u)
    BY <1>5
  <2> QED
    BY <1>4, <2>9, <2>10
<1> QED
  BY <1>6

\* Waiting for helpers never closes a circle, whatever the waiting callers take
\* meanwhile: of any threads that have not trapped, one waits for none of them,
\* and while no thread has trapped there is no cycle at all (the waiting loop of
\* almide_fan_deal).  A trap's own wait can close one: see TrapExits.
THEOREM WaitsEnd ==
  Spec => [](UntrappedMove /\ ((\A t \in Threads : ~TopIs(t, {"trap"})) => NoWaitCycle))
<1>1. NestInv /\ OrderInv => UntrappedMove
  <2> SUFFICES ASSUME NestInv, OrderInv,
                      NEW S \in SUBSET {t \in Threads : ~TopIs(t, {"trap"})}, S # {}
               PROVE  \E t \in S : \A u \in S : ~WaitsFor(t, u)
    BY DEF UntrappedMove
  <2>1. CASE \A t \in S : TopIs(t, {"wait"})
    BY <2>1, LastMadeMoves
  <2>2. CASE \E t \in S : ~TopIs(t, {"wait"})
    <3>1. PICK t \in S : ~TopIs(t, {"wait"})
      BY <2>2
    <3>2. ~TopIs(t, {"trap"})
      OBVIOUS
    <3>3. \A u \in S : ~WaitsFor(t, u)
      BY <3>1, <3>2 DEF WaitsFor
    <3> QED
      BY <3>3
  <2> QED
    BY <2>1, <2>2
<1>2. UntrappedMove => ((\A t \in Threads : ~TopIs(t, {"trap"})) => NoWaitCycle)
  BY DEF UntrappedMove, NoWaitCycle
<1> QED
  BY <1>1, <1>2, NestInit, NestNext, OrderInit, OrderNext, PTL DEF Spec
=============================================================================
