---------------------------- MODULE FanSequential ----------------------------
(***************************************************************************)
(* What a `fan` must look like from outside (ADR-0024 D1, D5, D6): the     *)
(* sequential evaluation.  The first element runs to its end, then the     *)
(* second, and so on; a nested fan runs inside the element that starts it; *)
(* the first trap met in that order ends the program with its error, and   *)
(* nothing after it is printed.  What can be seen is stdout and stderr,    *)
(* each by itself, and how the program ends.                               *)
(***************************************************************************)
EXTENDS Naturals, Sequences, SequencesExt

CONSTANTS Groups,     \* the fans of the program
          RootFan,    \* the outermost one
          Top,        \* the process's own stdout and stderr
          Fans,       \* [Groups -> sequences of elements]
          StartedBy,  \* [Groups -> the element that starts the fan, Top for RootFan]
          Scripts     \* [element -> set of sequences of operations]

(* The operations: "line" prints a line, "part" prints without a newline,  *)
(* "err" prints to stderr, "fan" runs the nested fan, "trap" is a trap     *)
(* (almide_abort) or process.exit.                                         *)

VARIABLES script,   \* the program: what each element does
          out,      \* what has been printed, per descriptor
          status    \* "running", "returned" or "exited"

svars == <<script, out, status>>

Elem == UNION {Range(Fans[g]) : g \in Groups}

\* The fans form a tree: an element has one place in one fan, a fan is started
\* by one element, and an element starts at most one.
ASSUME TreeAssumption ==
  /\ RootFan \in Groups /\ Fans \in [Groups -> Seq(Elem)] /\ Top \notin Elem
  /\ \A g, h \in Groups : \A i \in 1..Len(Fans[g]), j \in 1..Len(Fans[h]) :
       Fans[g][i] = Fans[h][j] => g = h /\ i = j
  /\ StartedBy \in [Groups -> Elem \cup {Top}]
  /\ \A g \in Groups : StartedBy[g] = Top <=> g = RootFan
  /\ \A g, h \in Groups : StartedBy[g] = StartedBy[h] => g = h

\* Every fan is nested in the outermost one, at some depth.
ASSUME NestingAssumption ==
  \A S \in SUBSET Groups :
    S # {} /\ (\A g \in S, h \in Groups : StartedBy[g] \in Range(Fans[h]) => h \in S)
    => RootFan \in S

ASSUME ScriptAssumption ==
  \A e \in Elem : \A s \in Scripts[e] :
    /\ s \in Seq({"line", "part", "err", "fan", "trap"})
    /\ \A j, k \in 1..Len(s) : s[j] = "fan" /\ s[k] = "fan" => j = k
    /\ \A k \in 1..Len(s) : s[k] = "fan" => \E g \in Groups : StartedBy[g] = e

ChildOf(e) == CHOOSE g \in Groups : StartedBy[g] = e
FdOf(op) == IF op \in {"line", "part"} THEN "stdout" ELSE "stderr"

\* Every operation of element e, its nested fan's included, in list order.
Trace[e \in Elem] ==
  FlattenSeq([k \in 1..Len(script[e]) |->
    IF script[e][k] = "fan"
      THEN FlattenSeq([i \in 1..Len(Fans[ChildOf(e)]) |-> Trace[Fans[ChildOf(e)][i]]])
      ELSE <<[elem |-> e, at |-> k]>>])

OpOf(x) == script[x.elem][x.at]

\* The whole program, up to and including its first trap.
Sequential ==
  LET all == FlattenSeq([i \in 1..Len(Fans[RootFan]) |-> Trace[Fans[RootFan][i]]])
      traps == {k \in 1..Len(all) : OpOf(all[k]) = "trap"}
  IN  IF traps = {} THEN all
      ELSE SubSeq(all, 1, CHOOSE k \in traps : \A j \in traps : k <= j)

Observed(fd) == SelectSeq(Sequential, LAMBDA x : FdOf(OpOf(x)) = fd)
Traps == \E k \in 1..Len(Sequential) : OpOf(Sequential[k]) = "trap"

SInit ==
  /\ script \in {f \in [Elem -> UNION {Scripts[e] : e \in Elem}] :
                   \A e \in Elem : f[e] \in Scripts[e]}
  /\ out = [fd \in {"stdout", "stderr"} |-> <<>>]
  /\ status = "running"

\* More of the sequential output appears on a descriptor.
Emit(fd) ==
  /\ status = "running"
  /\ UNCHANGED <<script, status>>
  /\ out' # out
  /\ \E n \in (Len(out[fd]) + 1)..Len(Observed(fd)) :
       out' = [out EXCEPT ![fd] = SubSeq(Observed(fd), 1, n)]

\* The program ends once all of it is there.
End ==
  /\ status = "running" /\ status' # "running"
  /\ UNCHANGED script
  /\ out' = [fd \in {"stdout", "stderr"} |-> Observed(fd)]
  /\ \A fd \in {"stdout", "stderr"} : IsPrefix(out[fd], out'[fd])
  /\ status' = IF Traps THEN "exited" ELSE "returned"

SNext == (\E fd \in {"stdout", "stderr"} : Emit(fd)) \/ End

SSpec == SInit /\ [][SNext]_svars
=============================================================================
