----------------------------- MODULE MCFanArms -----------------------------
(* A block of two arms, each with a block of two arms. *)
EXTENDS FanArms
CONSTANTS top, left, right, l1, l2, r1, r2
MCArms == {left, right, l1, l2, r1, r2}
MCBlock == [n \in MCArms \cup {top} |->
              CASE n = top -> <<left, right>>
                [] n = left -> <<l1, l2>>
                [] n = right -> <<r1, r2>>
                [] OTHER -> <<>>]
=============================================================================
