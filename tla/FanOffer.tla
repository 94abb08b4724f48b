------------------------------ MODULE FanOffer -------------------------------
(***************************************************************************)
(* What one parallel list operation promises its caller, whatever threads  *)
(* help it: while the call lasts each block of the list runs at most once; *)
(* it returns only when every block has run, or when some element          *)
(* unwound; and no block runs before the call or after its return.         *)
(***************************************************************************)
EXTENDS Naturals

CONSTANTS Callers, MaxBlocks, MayPanic

VARIABLES busy,     \* caller c is inside its call
          size,     \* the blocks of the call
          ran,      \* the blocks that have run
          unwound   \* some element of the call unwound

vars == <<busy, size, ran, unwound>>

Init ==
  /\ busy = [c \in Callers |-> FALSE]
  /\ size = [c \in Callers |-> 1]
  /\ ran = [c \in Callers |-> {}]
  /\ unwound = [c \in Callers |-> FALSE]

Call(c, n) ==
  /\ ~busy[c]
  /\ busy' = [busy EXCEPT ![c] = TRUE]
  /\ size' = [size EXCEPT ![c] = n]
  /\ ran' = [ran EXCEPT ![c] = {}]
  /\ unwound' = [unwound EXCEPT ![c] = FALSE]

RunBlock(c, b) ==
  /\ busy[c]
  /\ b \in 0..(size[c] - 1) /\ b \notin ran[c]
  /\ ran' = [ran EXCEPT ![c] = @ \cup {b}]
  /\ UNCHANGED <<busy, size, unwound>>

Fail(c) ==
  /\ MayPanic
  /\ busy[c]
  /\ unwound' = [unwound EXCEPT ![c] = TRUE]
  /\ UNCHANGED <<busy, size, ran>>

Finish(c) ==
  /\ busy[c]
  /\ unwound[c] \/ ran[c] = 0..(size[c] - 1)
  /\ busy' = [busy EXCEPT ![c] = FALSE]
  /\ UNCHANGED <<size, ran, unwound>>

Next ==
  \E c \in Callers :
    \/ \E n \in 1..MaxBlocks : Call(c, n)
    \/ \E b \in 0..(size[c] - 1) : RunBlock(c, b)
    \/ Fail(c)
    \/ Finish(c)

Spec == Init /\ [][Next]_vars
=============================================================================
