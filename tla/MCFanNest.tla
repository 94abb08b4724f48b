------------------------------ MODULE MCFanNest ------------------------------
(* An outermost offer of two blocks and the offers made inside them.         *)
EXTENDS FanNest

\* Three levels: an offer in the last block, and one in each block of that.
\* A block that may trap has no offer made in a block before it.
TreeOffers == {"outer", "mid", "left", "right"}
TreeBlocks == [outer |-> 2, mid |-> 2, left |-> 2, right |-> 2]
TreeMadeIn == [outer |-> None, mid |-> <<"outer", 1>>, left |-> <<"mid", 0>>, right |-> <<"mid", 1>>]
TreeMayTrap == {<<"outer", 0>>, <<"mid", 0>>, <<"left", 1>>}

\* An offer in the first block, a trap in the second.
TrapOffers == {"outer", "left"}
TrapBlocks == [outer |-> 2, left |-> 2]
TrapMadeIn == [outer |-> None, left |-> <<"outer", 0>>]
TrapMayTrap == {<<"outer", 1>>}
=============================================================================
