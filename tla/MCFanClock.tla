----------------------------- MODULE MCFanClock ------------------------------
(* Callers and sites are interchangeable: every hash of the sites is an     *)
(* initial state, and no property names one of them.                        *)
EXTENDS FanClock, TLC

Interchange == Permutations(Callers) \cup Permutations(Sites)
=============================================================================
